---- MODULE Spec2Model ----
(***************************************************************************)
(* Federated question-answering aggregator (pytikuadapter).                *)
(*                                                                         *)
(* Three specifications share the variables of this module:                *)
(*   Spec       the search endpoint: provider split, batch cache lookup,   *)
(*              concurrent fan-out, result processing, detached            *)
(*              write-through tasks running against the cache store;       *)
(*   SpecStore  write-through tasks alone, submitted with enumerated       *)
(*              inputs and interleaved at their await points;              *)
(*   SpecSem    the fan-out semaphore with its real capacity, tasks        *)
(*              counted by phase.                                          *)
(***************************************************************************)
EXTENDS Integers, Sequences, FiniteSets, TLC

(***************************************************************************)
(* Bounds of the model.                                                    *)
(***************************************************************************)
MaxRequests == 2
MaxProviders == 2
MaxWT == 3
MaxBatch == 1
MaxTasks == 22

(***************************************************************************)
(* Optional values: Python None against a present value.                   *)
(***************************************************************************)
NoneSeq == [some |-> FALSE, val |-> <<>>]
NoneBool == [some |-> FALSE, val |-> FALSE]
NoneInt == [some |-> FALSE, val |-> 0]
Some(v) == [some |-> TRUE, val |-> v]

(***************************************************************************)
(* Text: a string is a sequence of one-character strings.                  *)
(***************************************************************************)
Code(c) ==
  CASE c = " " -> 32 [] c = "." -> 46 [] c = "?" -> 63
    [] c = "A" -> 65 [] c = "B" -> 66 [] c = "Y" -> 89 [] c = "Z" -> 90
    [] c = "_" -> 95
    [] c = "a" -> 97 [] c = "b" -> 98 [] c = "x" -> 120 [] c = "y" -> 121
    [] c = "z" -> 122
    [] OTHER -> 0

Lower(c) ==
  CASE c = "A" -> "a" [] c = "B" -> "b" [] c = "Y" -> "y" [] c = "Z" -> "z" [] OTHER -> c

(* A letter, a digit, the underscore, or a Chinese character (yu, he, ji
   and yi stand for four of them). *)
IsWordChar(c) ==
  c \in {"A", "B", "Y", "Z", "_", "a", "b", "x", "y", "z", "yu", "he", "ji", "yi"}

IsSpaceChar(c) == c = " "

RECURSIVE StrLess(_, _)
StrLess(s, t) ==
  IF s = <<>> THEN t # <<>>
  ELSE IF t = <<>> THEN FALSE
  ELSE IF Code(Head(s)) # Code(Head(t)) THEN Code(Head(s)) < Code(Head(t))
  ELSE StrLess(Tail(s), Tail(t))

RECURSIVE Insert(_, _)
Insert(x, sorted) ==
  IF sorted = <<>> THEN <<x>>
  ELSE IF StrLess(Head(sorted), x) \/ Head(sorted) = x
       THEN <<Head(sorted)>> \o Insert(x, Tail(sorted))
       ELSE <<x>> \o sorted

RECURSIVE SortStrings(_)
SortStrings(s) == IF s = <<>> THEN <<>> ELSE Insert(Head(s), SortStrings(Tail(s)))

normalize_text_FirstOnly(text) ==
  LET IsKept(c) == IsWordChar(Lower(c))
      first == CHOOSE i \in 1..(Len(text) + 1) :
                 /\ i <= Len(text) => ~IsKept(text[i])
                 /\ \A j \in 1..(i - 1) : IsKept(text[j])
  IN [i \in 1..(first - 1) |-> Lower(text[i])]
       \o [i \in 1..(Len(text) - first) |-> Lower(text[first + i])]

normalize_text(text) ==
  IF text = <<>> THEN <<>>
  ELSE LET lowered == [i \in DOMAIN text |-> Lower(text[i])]
           kept == SelectSeq(lowered, IsWordChar)
       IN SelectSeq(kept, LAMBDA c : ~IsSpaceChar(c))

normalize_options(options) ==
  IF ~options.some \/ options.val = <<>> THEN NoneSeq
  ELSE Some(SortStrings([i \in DOMAIN options.val |-> normalize_text(options.val[i])]))

(***************************************************************************)
(* Queries of the model.  QA and QB differ in letter case, punctuation     *)
(* and option order only; QN carries no type and no options.               *)
(***************************************************************************)
QA == [content |-> <<"A", "?">>, type |-> Some(0),
       options |-> Some(<< <<"x">>, <<"y">> >>)]
QB == [content |-> <<"a", " ">>, type |-> Some(0),
       options |-> Some(<< <<"Y", ".">>, <<"x">> >>)]
QN == [content |-> <<"b">>, type |-> NoneInt, options |-> NoneSeq]

Queries == {QA, QB, QN}

(***************************************************************************)
(* Answers in flight (model.A).                                            *)
(***************************************************************************)
A(provider, type, choice, success, error_type) ==
  [provider |-> provider, type |-> type, choice |-> choice,
   judgement |-> NoneBool, text |-> NoneSeq,
   success |-> success, error_type |-> error_type]

(***************************************************************************)
(* The cache store: committed rows of the three tables and the id          *)
(* sequences.  Uncommitted rows live in the session that wrote them.       *)
(***************************************************************************)
VARIABLES questions, answers, question_provider_answers, seqQ, seqA, seqL

(* Write-through tasks created so far, each with its private session. *)
VARIABLES wt, commits, lastRun

(* The search request in progress and the responses emitted so far. *)
VARIABLES pc, nreq, query, providers_list, answers_from_cache,
          valid_providers, tasks, sem, response, reqlog

(* The fan-out semaphore of SpecSem, tasks counted by phase. *)
VARIABLES semValue, nWaiting, nRunning, nEnded

(* The last exact lookup made against the store (SpecKey). *)
VARIABLES lookup

(* The last direct call of an adapter's search (SpecAdapter). *)
VARIABLES call

(* The provider configs stored for the caller's token and the provider
   resolution of the request in progress (SpecResolve). *)
VARIABLES token_configs, resolution

(* The last run of the aggregator (SpecAgg). *)
VARIABLES agg

(* The last call of the answer matcher (SpecMatch). *)
VARIABLES matcher

(* The passes of a normalisation over one input (SpecNorm). *)
VARIABLES normal

(* The adapter registry of the process (SpecRegistry). *)
VARIABLES registry

(* The fan-out of a second request and the outcome of the last call
   (SpecFanOut). *)
VARIABLES fan

(* The tasks of the process and their database sessions (SpecSession). *)
VARIABLES sess

(* The committed questions with their vectors, the answers of the provider
   Like attached to them, and the last operation (SpecEmbed). *)
VARIABLES emb

(* The last batch cache read and the providers of the write-throughs
   (SpecRead). *)
VARIABLES read

storeVars == <<questions, answers, question_provider_answers, seqQ, seqA, seqL>>
wtVars == <<wt, commits, lastRun>>
reqVars == <<pc, nreq, query, providers_list, answers_from_cache,
             valid_providers, tasks, sem, response, reqlog>>
semVars == <<semValue, nWaiting, nRunning, nEnded>>
resolveVars == <<token_configs, resolution>>
pureVars == <<lookup, call, resolveVars, agg, matcher, normal, registry, fan, sess, emb, read>>
vars == <<storeVars, wtVars, reqVars, semVars, pureVars>>

NoRow == [id |-> 0]

(* scalar_one_or_none: the row, none, or MultipleResultsFound. *)
scalar_one_or_none(rows) ==
  IF rows = {} THEN [raised |-> FALSE, row |-> NoRow]
  ELSE IF Cardinality(rows) = 1
       THEN [raised |-> FALSE, row |-> CHOOSE r \in rows : TRUE]
       ELSE [raised |-> TRUE, row |-> NoRow]

(* The WHERE clause of the exact lookup: an absent type or absent options
   compare as IS NULL. *)
_find_by_normalized_where(row, q) ==
  /\ row.normalized_content = normalize_text(q.content)
  /\ q.type.some /\ row.type = q.type.val
  /\ row.normalized_options = normalize_options(q.options)

_find_by_normalized(rows, q) ==
  scalar_one_or_none({r \in rows : _find_by_normalized_where(r, q)})

(* Exact match first; the approximate tier is consulted on a miss and finds
   no candidate above the similarity threshold among the questions of
   Queries, which are stored under one key or have no type. *)
find_question(rows, q) == _find_by_normalized(rows, q)

(* The WHERE clause of the answer look-up in batch_save_answers: a payload
   field that is falsy in Python is looked up as IS NULL. *)
AnswerWhere(row, a) ==
  /\ a.type.some /\ row.type = a.type.val
  /\ IF a.choice.some /\ a.choice.val # <<>> THEN row.choice = a.choice
     ELSE ~row.choice.some
  /\ IF a.judgement.some THEN row.judgement = a.judgement
     ELSE ~row.judgement.some
  /\ IF a.text.some /\ a.text.val # <<>> THEN row.text = a.text
     ELSE ~row.text.some

QpaWhere(row, question_id, provider_name) ==
  /\ row.question_id = question_id
  /\ row.provider_name = provider_name

(***************************************************************************)
(* Write-through task (save_cache_async -> batch_save_answers).            *)
(***************************************************************************)
NewTask(q, batch) ==
  [pc |-> "created", query |-> q, batch |-> batch, i |-> 1,
   question_id |-> 0, answer_id |-> 0,
   newQ |-> {}, newA |-> {}, newL |-> {}, upd |-> {},
   epoch |-> 0]

(* What the session of task t sees: committed rows plus its own flushed
   rows, its own pointer updates applied. *)
SeenQuestions(t) == questions \cup wt[t].newQ
SeenAnswers(t) == answers \cup wt[t].newA
ApplyUpdates(rows, upd) ==
  {IF \E u \in upd : u[1] = r.id
   THEN [r EXCEPT !.answer_id = (CHOOSE u \in upd : u[1] = r.id)[2]]
   ELSE r : r \in rows}
SeenQpas(t) == ApplyUpdates(question_provider_answers, wt[t].upd) \cup wt[t].newL

save_cache_async_NoExcept(task) == [NewTask(QA, <<>>) EXCEPT !.pc = "raised"]

(* A task that has ended keeps nothing: its session is closed. *)
Ended(task, how) == [NewTask(QA, <<>>) EXCEPT !.pc = how]

(* The except clause of save_cache_async: the error is logged, the session
   rolled back, nothing leaves the task. *)
save_cache_async_except(task) == Ended(task, "failed")

Running(t) == wt[t].pc \in {"created", "answer", "qpa", "commit"}

(* Step 1: open the session, find the question or create and flush it. *)
WT_FindOrCreateQuestion(t) ==
  /\ wt[t].pc = "created"
  /\ LET q == wt[t].query
         found == find_question(SeenQuestions(t), q)
         started == [wt[t] EXCEPT !.epoch = commits]
     IN IF found.raised \/ (found.row = NoRow /\ ~q.type.some)
        THEN /\ wt' = [wt EXCEPT ![t] = save_cache_async_except(started)]
             /\ UNCHANGED seqQ
        ELSE IF found.row # NoRow
        THEN /\ wt' = [wt EXCEPT ![t] =
                        [started EXCEPT !.pc = "answer", !.question_id = found.row.id]]
             /\ UNCHANGED seqQ
        ELSE /\ wt' = [wt EXCEPT ![t] =
                        [started EXCEPT !.pc = "answer", !.question_id = seqQ,
                           !.newQ = {[id |-> seqQ,
                                      normalized_content |-> normalize_text(q.content),
                                      type |-> q.type.val,
                                      normalized_options |-> normalize_options(q.options)]}]]
             /\ seqQ' = seqQ + 1
  /\ UNCHANGED <<questions, answers, question_provider_answers, seqA, seqL,
                 commits, lastRun, reqVars, semVars, pureVars>>

(* Step 2, per pair: find the answer row or create and flush it. *)
WT_FindOrCreateAnswer(t) ==
  /\ wt[t].pc = "answer"
  /\ LET a == wt[t].batch[wt[t].i][2]
         found == scalar_one_or_none({r \in SeenAnswers(t) : AnswerWhere(r, a)})
     IN IF found.raised \/ (found.row = NoRow /\ ~a.type.some)
        THEN /\ wt' = [wt EXCEPT ![t] = save_cache_async_except(@)]
             /\ UNCHANGED seqA
        ELSE IF found.row # NoRow
        THEN /\ wt' = [wt EXCEPT ![t].pc = "qpa", ![t].answer_id = found.row.id]
             /\ UNCHANGED seqA
        ELSE /\ wt' = [wt EXCEPT ![t].pc = "qpa", ![t].answer_id = seqA,
                         ![t].newA = @ \cup {[id |-> seqA, type |-> a.type.val,
                                              choice |-> a.choice,
                                              judgement |-> a.judgement,
                                              text |-> a.text]}]
             /\ seqA' = seqA + 1
  /\ UNCHANGED <<questions, answers, question_provider_answers, seqQ, seqL,
                 commits, lastRun, reqVars, semVars, pureVars>>

(* Step 3, per pair: find the (question, provider) row; repoint it, or add
   a new one. *)
WT_UpsertQpa(t) ==
  /\ wt[t].pc = "qpa"
  /\ LET p == wt[t].batch[wt[t].i][1]
         found == scalar_one_or_none(
                    {r \in SeenQpas(t) : QpaWhere(r, wt[t].question_id, p)})
         next == IF wt[t].i < Len(wt[t].batch) THEN "answer" ELSE "commit"
     IN IF found.raised
        THEN /\ wt' = [wt EXCEPT ![t] = save_cache_async_except(@)]
             /\ UNCHANGED seqL
        ELSE IF found.row # NoRow
        THEN /\ wt' = [wt EXCEPT ![t].pc = next, ![t].i = @ + 1,
                         ![t].upd = IF found.row \in wt[t].newL THEN @
                                    ELSE {u \in @ : u[1] # found.row.id}
                                           \cup {<<found.row.id, wt[t].answer_id>>},
                         ![t].newL = {IF r.id = found.row.id
                                      THEN [r EXCEPT !.answer_id = wt[t].answer_id]
                                      ELSE r : r \in @}]
             /\ UNCHANGED seqL
        ELSE /\ wt' = [wt EXCEPT ![t].pc = next, ![t].i = @ + 1,
                         ![t].newL = @ \cup {[id |-> seqL,
                                              question_id |-> wt[t].question_id,
                                              provider_name |-> p,
                                              answer_id |-> wt[t].answer_id]}]
             /\ seqL' = seqL + 1
  /\ UNCHANGED <<questions, answers, question_provider_answers, seqQ, seqA,
                 commits, lastRun, reqVars, semVars, pureVars>>

(* Step 4: commit, once, after all pairs. *)
WT_Commit(t) ==
  /\ wt[t].pc = "commit"
  /\ questions' = questions \cup wt[t].newQ
  /\ answers' = answers \cup wt[t].newA
  /\ question_provider_answers' =
       ApplyUpdates(question_provider_answers, wt[t].upd) \cup wt[t].newL
  /\ wt' = [wt EXCEPT ![t] = Ended(@, "done")]
  /\ commits' = commits + 1
  /\ lastRun' = [query |-> wt[t].query, batch |-> wt[t].batch,
                 alone |-> wt[t].epoch = commits]
  /\ UNCHANGED <<seqQ, seqA, seqL, reqVars, semVars, pureVars>>

WT_Fail_FlushedStays(t) ==
  /\ Running(t)
  /\ questions' = questions \cup wt[t].newQ
  /\ answers' = answers \cup wt[t].newA
  /\ question_provider_answers' = question_provider_answers \cup wt[t].newL
  /\ wt' = [wt EXCEPT ![t] = save_cache_async_except(@)]
  /\ UNCHANGED <<seqQ, seqA, seqL, commits, lastRun, reqVars, semVars, pureVars>>

(* Any database call of the task may raise (connection lost, pool
   exhausted): rollback, log, discard. *)
WT_Fail(t) ==
  /\ Running(t)
  /\ wt' = [wt EXCEPT ![t] = save_cache_async_except(@)]
  /\ UNCHANGED <<storeVars, commits, lastRun, reqVars, semVars, pureVars>>

WTDone == \A t \in DOMAIN wt : ~Running(t)

(***************************************************************************)
(* Provider registry and adapters.                                         *)
(***************************************************************************)
MAX_CONCURRENT == 20

ProviderNames == {"Local", "Wanneng", "Like", "Ghost"}

_achievelist == {"Local", "Wanneng", "Like"}

NoAdapter == ""

get_adapter_achieve_AnyName(name) == name

get_adapter_achieve(name) == IF name \in _achievelist THEN name ELSE NoAdapter

CACHEABLE_Ignored(adapter) == TRUE

(* getattr(adapter, 'CACHEABLE', True): only Local sets it to False. *)
CACHEABLE(adapter) == adapter # "Local"

(* p.name.lower() == "local" *)
IsLocalProvider(name) == name \in {"Local", "local", "LOCAL"}

(* What one adapter call gives the engine: an answer object, a raised
   exception, or a return value that is no answer object. *)
NoAnswer == A("", NoneInt, NoneSeq, FALSE, "")
Answer(a) == [kind |-> "answer", a |-> a]
Raised == [kind |-> "exception", a |-> NoAnswer]
NoneResult == [kind |-> "none", a |-> NoAnswer]
Pending == [kind |-> "pending", a |-> NoAnswer]

Failure(name, q, error_type) == A(name, q.type, NoneSeq, FALSE, error_type)

(* provider.config as the adapter receives it: None, a mapping that fails
   the adapter's Configs schema, or a valid mapping. *)
ProviderConfigs == {"absent", "invalid", "valid"}

(* What the upstream service does with a request that reaches it. *)
WannengUpstreams == {"transport_error", "indices", "no_indices"}
LikeUpstreams == {"api_error", "selected"}

(* Wanneng._search: unpacking a None config into Configs raises TypeError,
   which the except ValidationError clause does not catch; an invalid config and upstream
   errors give failure answers; for a choice question the upstream indices
   become letters (non-integers are dropped, possibly leaving none); a query
   without a type matches no branch and the function returns None. *)
Wanneng__search(q, config, upstream) ==
  IF config = "absent" THEN Raised
  ELSE IF config = "invalid" THEN Answer(Failure("Wanneng", q, "config_error"))
  ELSE IF upstream = "transport_error" THEN Answer(Failure("Wanneng", q, "network_error"))
  ELSE IF ~q.type.some THEN NoneResult
  ELSE Answer(A("Wanneng", q.type,
                Some(IF upstream = "indices" THEN <<"A">> ELSE <<>>), TRUE, ""))

Wanneng_search(q) ==
  {Wanneng__search(q, c, u) : c \in ProviderConfigs, u \in WannengUpstreams}

(* Like._search: same config handling; a query without a type raises
   KeyError inside the try block, which becomes an unknown failure; the
   answer type is recomputed from the number of selected options. *)
Like__search(q, config, upstream) ==
  IF config = "absent" THEN Raised
  ELSE IF config = "invalid" THEN Answer(Failure("Like", q, "config_error"))
  ELSE IF ~q.type.some THEN Answer(Failure("Like", q, "unknown"))
  ELSE IF upstream = "api_error" THEN Answer(Failure("Like", q, "api_error"))
  ELSE LET selectedOptions == <<"B">>
       IN Answer(A("Like", Some(IF Len(selectedOptions) > 1 THEN 1 ELSE 0),
                   Some(selectedOptions), TRUE, ""))

Like_search(q) ==
  {Like__search(q, c, u) : c \in ProviderConfigs, u \in LikeUpstreams}

(* Whether the database answers the statements of a session. *)
LocalUpstreams == {"db_ok", "db_error"}

(* Local._search: its own session; the question is looked up, then one
   stored answer of it is taken (LIMIT 1 without ORDER BY: any row),
   whichever provider wrote it; every error is caught and returned as an
   unknown failure. *)
Local__search(q, db) ==
  LET found == find_question(questions, q)
      rows == {r \in question_provider_answers : r.question_id = found.row.id}
      AnswerOf(r) == CHOOSE a \in answers : a.id = r.answer_id
  IN IF db = "db_error" \/ found.raised THEN {Answer(Failure("Local", q, "unknown"))}
     ELSE IF found.row = NoRow \/ rows = {}
     THEN {Answer(Failure("Local", q, "cache_miss"))}
     ELSE {Answer([A("Local", Some(AnswerOf(r).type), AnswerOf(r).choice, TRUE, "")
                     EXCEPT !.judgement = AnswerOf(r).judgement,
                            !.text = AnswerOf(r).text]) : r \in rows}

Local_search(q) == UNION {Local__search(q, db) : db \in LocalUpstreams}

(* Providersbase.search: logs and re-raises. *)
AdapterSearch(adapter, q) ==
  CASE adapter = "Local" -> Local_search(q)
    [] adapter = "Wanneng" -> Wanneng_search(q)
    [] OTHER -> Like_search(q)

(***************************************************************************)
(* Batch cache read.                                                       *)
(***************************************************************************)
Miss == [hit |-> FALSE, a |-> NoAnswer]

(* get_cached_answers, one provider: none, or the answer of a row of that
   (question, provider); with several rows the last one iterated wins. *)
get_cached_answers(question, name) ==
  LET rows == {r \in question_provider_answers : QpaWhere(r, question.id, name)}
      AnswerOf(r) == CHOOSE a \in answers : a.id = r.answer_id
  IN IF rows = {} THEN {Miss}
     ELSE {[hit |-> TRUE,
            a |-> [A(name, Some(AnswerOf(r).type), AnswerOf(r).choice, TRUE, "")
                     EXCEPT !.judgement = AnswerOf(r).judgement,
                            !.text = AnswerOf(r).text]] : r \in rows}

(* query_cache_batch: the possible results, one entry per given provider. *)
query_cache_batch(q, names) ==
  LET found == find_question(questions, q)
  IN IF found.row = NoRow THEN {[i \in DOMAIN names |-> Miss]}
     ELSE {c \in [DOMAIN names -> UNION {get_cached_answers(found.row, names[i])
                                            : i \in DOMAIN names}]
             : \A i \in DOMAIN names : c[i] \in get_cached_answers(found.row, names[i])}

IsCacheHit_Never(entry) == FALSE

(* (ans := cached.get(p.name)) is not None *)
IsCacheHit(entry) == entry.hit

(***************************************************************************)
(* The search endpoint.                                                    *)
(***************************************************************************)
Injective(s) == \A i, j \in DOMAIN s : s[i] = s[j] => i = j

ProviderLists ==
  {s \in UNION {[1..n -> ProviderNames] : n \in 0..MaxProviders} : Injective(s)}

NoLog == [cached |-> <<>>, other_providers |-> <<>>, to_cache |-> <<>>,
          wt_before |-> 0]

(* _resolve_providers has produced the list provs; an empty list is
   rejected with HTTP 400, otherwise the batch cache lookup is awaited. *)
Start(q, provs) ==
  /\ pc \in {"idle", "responded", "rejected", "crashed"}
  /\ nreq < MaxRequests
  /\ nreq' = nreq + 1
  /\ query' = q
  /\ providers_list' = provs
  /\ pc' = IF provs = <<>> THEN "rejected" ELSE "lookup"
  /\ answers_from_cache' = <<>>
  /\ valid_providers' = <<>>
  /\ tasks' = <<>>
  /\ sem' = MAX_CONCURRENT
  /\ response' = <<>>
  /\ reqlog' = NoLog
  /\ UNCHANGED <<storeVars, wtVars, semVars, pureVars>>

(* isinstance(res, Exception) *)
IsException(res) == res.kind = "exception"

SemLocked_Never(value) == FALSE

(* asyncio.Semaphore.locked() *)
SemLocked(value) == value = 0

GatherDone_FirstException(ts) ==
  \/ \A i \in DOMAIN ts : ts[i].state = "ended"
  \/ \E i \in DOMAIN ts : ts[i].state = "ended" /\ ts[i].res.kind = "exception"

GatherDone_FirstCompleted(ts) ==
  ts = <<>> \/ \E i \in DOMAIN ts : ts[i].state = "ended"

(* asyncio.gather with return_exceptions=True returns when every task has
   ended. *)
GatherDone(ts) == \A i \in DOMAIN ts : ts[i].state = "ended"

gather_AsCompleted(ts) ==
  [k \in DOMAIN ts |-> ts[CHOOSE i \in DOMAIN ts : ts[i].arrived = k].res]

(* The value of asyncio.gather: the results in the order of the tasks
   passed, whatever the order in which they ended. *)
gather(ts) == [i \in DOMAIN ts |-> ts[i].res]

(* The batch lookup returns: hits become entries, Local providers and misses
   are resolved in the registry and one task is created per adapter found. *)
CacheLookupReturn ==
  /\ pc = "lookup"
  /\ LET local_providers == SelectSeq(providers_list, IsLocalProvider)
         other_providers == SelectSeq(providers_list, LAMBDA n : ~IsLocalProvider(n))
     IN /\ ~find_question(questions, query).raised
        /\ \E cached \in query_cache_batch(query, other_providers) :
             LET hitIdx == SelectSeq([i \in DOMAIN other_providers |-> i],
                                     LAMBDA i : IsCacheHit(cached[i]))
                 missIdx == SelectSeq([i \in DOMAIN other_providers |-> i],
                                      LAMBDA i : ~IsCacheHit(cached[i]))
                 providers_to_query ==
                   local_providers \o [k \in DOMAIN missIdx |-> other_providers[missIdx[k]]]
                 valid == SelectSeq(providers_to_query,
                                    LAMBDA n : get_adapter_achieve(n) # NoAdapter)
             IN /\ answers_from_cache' = [k \in DOMAIN hitIdx |-> cached[hitIdx[k]].a]
                /\ valid_providers' = valid
                /\ tasks' = [i \in DOMAIN valid |->
                               [state |-> "waiting", calls |-> 0, res |-> Pending, arrived |-> 0]]
                /\ reqlog' = [reqlog EXCEPT !.cached = cached,
                                            !.other_providers = other_providers]
  /\ pc' = "gather"
  /\ UNCHANGED <<nreq, query, providers_list, sem, response,
                 storeVars, wtVars, semVars, pureVars>>

(* The batch lookup raises (database unavailable, or several question rows
   under one key): nothing in the handler catches it. *)
CacheLookupRaises ==
  /\ pc = "lookup"
  /\ SelectSeq(providers_list, LAMBDA n : ~IsLocalProvider(n)) # <<>>
  /\ pc' = "crashed"
  /\ UNCHANGED <<nreq, query, providers_list, answers_from_cache, valid_providers,
                 tasks, sem, response, reqlog, storeVars, wtVars, semVars, pureVars>>

(* _call_adapter: async with sem *)
TaskAcquire(i) ==
  /\ pc = "gather"
  /\ tasks[i].state = "waiting"
  /\ ~SemLocked(sem)
  /\ sem' = sem - 1
  /\ tasks' = [tasks EXCEPT ![i].state = "running", ![i].calls = @ + 1]
  /\ UNCHANGED <<pc, nreq, query, providers_list, answers_from_cache,
                 valid_providers, response, reqlog, storeVars, wtVars, semVars, pureVars>>

(* adapter.search returns or raises; the permit is released either way.  The
   result is the next one to arrive. *)
TaskReturn(i) ==
  /\ pc = "gather"
  /\ tasks[i].state = "running"
  /\ \E res \in AdapterSearch(get_adapter_achieve(valid_providers[i]), query) :
       tasks' = [tasks EXCEPT
                   ![i].state = "ended", ![i].res = res,
                   ![i].arrived =
                     Cardinality({j \in DOMAIN tasks : tasks[j].state = "ended"}) + 1]
  /\ sem' = sem + 1
  /\ UNCHANGED <<pc, nreq, query, providers_list, answers_from_cache,
                 valid_providers, response, reqlog, storeVars, wtVars, semVars, pureVars>>

(* The engine's entry for a raised exception. *)
SynthesizedUnknown(name, q) == A(name, q.type, NoneSeq, FALSE, "unknown")

EntryOf_NamedAfterFirst(name, q, res) ==
  IF IsException(res) THEN SynthesizedUnknown(valid_providers[1], q) ELSE res.a

EntryOf_RaisedAsSuccess(name, q, res) ==
  IF IsException(res) THEN A(name, q.type, NoneSeq, TRUE, "") ELSE res.a

(* The entry of result i: the synthesized failure, or the returned object. *)
EntryOf(name, q, res) ==
  IF IsException(res) THEN SynthesizedUnknown(name, q) ELSE res.a

(* The pair is queued for write-through. *)
IsQueuedForCache(name, res) ==
  /\ ~IsException(res)
  /\ res.a.success
  /\ get_adapter_achieve(name) # NoAdapter
  /\ CACHEABLE(get_adapter_achieve(name))

(* construct_res: the response lists the answers it is given, with the
   counts of all, successful and failed entries. *)
construct_res(q, all_answers) ==
  LET successful == Cardinality({i \in DOMAIN all_answers : all_answers[i].success})
  IN [query |-> q, provider_answers |-> all_answers,
      successful_providers |-> successful,
      failed_providers |-> Len(all_answers) - successful,
      total_providers |-> Len(all_answers)]

(* asyncio.gather returns; the results are processed in task order, the
   write-through task is created when to_cache is not empty, the response is
   built.  A result that is neither an exception nor an answer object makes
   res.success raise, and the handler ends with that error. *)
GatherReturn ==
  /\ pc = "gather"
  /\ GatherDone(tasks)
  /\ LET results == gather(tasks)
         idx == [i \in DOMAIN tasks |-> i]
         cacheIdx == SelectSeq(idx, LAMBDA i : IsQueuedForCache(valid_providers[i], results[i]))
         answers_from_query ==
           [i \in DOMAIN tasks |-> EntryOf(valid_providers[i], query, results[i])]
         to_cache == [k \in DOMAIN cacheIdx |->
                        <<valid_providers[cacheIdx[k]], results[cacheIdx[k]].a>>]
     IN IF \E i \in DOMAIN results : results[i].kind = "none"
        THEN /\ pc' = "crashed"
             /\ UNCHANGED <<response, wt>>
             /\ reqlog' = [reqlog EXCEPT !.wt_before = Len(wt)]
        ELSE /\ pc' = "responded"
             /\ response' = <<construct_res(query, answers_from_cache \o answers_from_query)>>
             /\ wt' = IF to_cache # <<>> THEN Append(wt, NewTask(query, to_cache)) ELSE wt
             /\ reqlog' = [reqlog EXCEPT !.to_cache = to_cache, !.wt_before = Len(wt)]
  /\ UNCHANGED <<nreq, query, providers_list, answers_from_cache, valid_providers,
                 tasks, sem, storeVars, commits, lastRun, semVars, pureVars>>

(***************************************************************************)
(* Write-through tasks submitted directly (SpecStore).                     *)
(***************************************************************************)
CacheablePairs ==
  {<<"Wanneng", A("Wanneng", Some(0), Some(<<"A">>), TRUE, "")>>,
   <<"Wanneng", A("Wanneng", Some(0), Some(<<>>), TRUE, "")>>,
   <<"Like", A("Like", Some(0), Some(<<"B">>), TRUE, "")>>}

BatchInputs == UNION {[1..n -> CacheablePairs] : n \in 1..MaxBatch}

SubmitWriteThrough(q, batch) ==
  /\ Len(wt) < MaxWT
  /\ wt' = Append(wt, NewTask(q, batch))
  /\ UNCHANGED <<storeVars, commits, lastRun, reqVars, semVars, pureVars>>

(***************************************************************************)
(* The semaphore under load (SpecSem): n tasks of one request.             *)
(***************************************************************************)
SemAcquire ==
  /\ nWaiting > 0
  /\ ~SemLocked(semValue)
  /\ semValue' = semValue - 1
  /\ nWaiting' = nWaiting - 1
  /\ nRunning' = nRunning + 1
  /\ UNCHANGED <<nEnded, storeVars, wtVars, reqVars, pureVars>>

SemRelease ==
  /\ nRunning > 0
  /\ semValue' = semValue + 1
  /\ nRunning' = nRunning - 1
  /\ nEnded' = nEnded + 1
  /\ UNCHANGED <<nWaiting, storeVars, wtVars, reqVars, pureVars>>

(***************************************************************************)
(* Specifications.                                                         *)
(***************************************************************************)
InitStore ==
  /\ questions = {} /\ answers = {} /\ question_provider_answers = {}
  /\ seqQ = 1 /\ seqA = 1 /\ seqL = 1
  /\ wt = <<>> /\ commits = 0
  /\ lastRun = [query |-> QA, batch |-> <<>>, alone |-> FALSE]

InitRequest ==
  /\ pc = "idle" /\ nreq = 0 /\ query = QA /\ providers_list = <<>>
  /\ answers_from_cache = <<>> /\ valid_providers = <<>> /\ tasks = <<>>
  /\ sem = MAX_CONCURRENT /\ response = <<>> /\ reqlog = NoLog

NoLookup == [done |-> FALSE, query |-> QA, raised |-> FALSE, row |-> NoRow, seen |-> 0]

NoCall == [done |-> FALSE, adapter |-> "", query |-> QA, config |-> "", upstream |-> "",
           res |-> Pending]

NoAgg ==
  [done |-> FALSE, request |-> [type |-> 0, options |-> NoneSeq], answers |-> <<>>,
   res |-> [raised |-> FALSE, bestAnswer |-> <<>>, answerKey |-> <<>>,
            answerKeyText |-> <<>>, answerIndex |-> <<>>, answerText |-> <<>>]]

(* A score is the fraction num / den. *)
NoMatcher ==
  [done |-> FALSE, kind |-> "", answer |-> <<>>, option |-> <<>>, score |-> [num |-> 0, den |-> 1],
   answer_keys |-> <<>>, answer_text |-> NoneSeq, options |-> NoneSeq,
   question_type |-> 0, res |-> NoAnswer]

NoNormal ==
  [kind |-> "", passes |-> 0, text_in |-> <<>>, prev_text |-> <<>>, text |-> <<>>,
   options_in |-> NoneSeq, prev_options |-> NoneSeq, options |-> NoneSeq]

(* ProviderRegistry.__init__: both dictionaries empty, no class created. *)
NoRegistry ==
  [_list |-> <<>>, _achievelist |-> <<>>, loaded |-> 0, last |-> "", raised |-> FALSE]

(* No call of a second request; its semaphore as search() creates it. *)
NoFan ==
  [semValue |-> MAX_CONCURRENT, nWaiting |-> 0, nRunning |-> 0, nEnded |-> 0,
   threw |-> FALSE]

NoSess == [tasks |-> <<>>, sessions |-> <<>>]

NoEmb ==
  [rows |-> {}, links |-> {},
   last |-> [op |-> "", query |-> 0, service |-> "", raised |-> FALSE, row |-> 0,
             tier |-> "", created |-> FALSE]]

NoRead ==
  [done |-> FALSE, query |-> QN, providers |-> <<>>, raised |-> FALSE, cached |-> <<>>,
   seen |-> 0, writers |-> <<>>]

NoResolution == [done |-> FALSE, request |-> NoneSeq, result |-> <<>>]

InitPure ==
  /\ lookup = NoLookup /\ call = NoCall
  /\ token_configs = <<>> /\ resolution = NoResolution
  /\ agg = NoAgg /\ matcher = NoMatcher /\ normal = NoNormal /\ registry = NoRegistry /\ fan = NoFan /\ sess = NoSess
  /\ emb = NoEmb /\ read = NoRead

InitSemIdle == semValue = MAX_CONCURRENT /\ nWaiting = 0 /\ nRunning = 0 /\ nEnded = 0

Init == InitStore /\ InitRequest /\ InitSemIdle /\ InitPure

DoStart == \E q \in Queries, provs \in ProviderLists : Start(q, provs)
DoTaskAcquire == \E i \in DOMAIN tasks : TaskAcquire(i)
DoTaskReturn == \E i \in DOMAIN tasks : TaskReturn(i)
DoFindOrCreateQuestion == \E t \in DOMAIN wt : WT_FindOrCreateQuestion(t)
DoFindOrCreateAnswer == \E t \in DOMAIN wt : WT_FindOrCreateAnswer(t)
DoUpsertQpa == \E t \in DOMAIN wt : WT_UpsertQpa(t)
DoCommit == \E t \in DOMAIN wt : WT_Commit(t)
DoFail == \E t \in DOMAIN wt : WT_Fail(t)
DoSubmit == \E q \in {QA, QB}, batch \in BatchInputs : SubmitWriteThrough(q, batch)

WTNext ==
  \/ DoFindOrCreateQuestion
  \/ DoFindOrCreateAnswer
  \/ DoUpsertQpa
  \/ DoCommit
  \/ DoFail

Next ==
  \/ DoStart
  \/ CacheLookupReturn
  \/ CacheLookupRaises
  \/ DoTaskAcquire
  \/ DoTaskReturn
  \/ GatherReturn
  \/ WTNext

Spec == Init /\ [][Next]_vars

NextStore == DoSubmit \/ WTNext

SpecStore == Init /\ [][NextStore]_vars

InitSem ==
  /\ InitStore /\ InitRequest /\ InitPure
  /\ semValue = MAX_CONCURRENT
  /\ nWaiting \in 1..MaxTasks
  /\ nRunning = 0
  /\ nEnded = 0

NextSem == SemAcquire \/ SemRelease

SpecSem == InitSem /\ [][NextSem]_vars

(***************************************************************************)
(* The exact-lookup key (SpecKey): one write-through of a question, exact  *)
(* lookups of questions written in other ways.                             *)
(***************************************************************************)
MaxKeyWT == 1

KeyContents ==
  {<<"a", "b">>, <<"A", " ", "b">>, <<"a", ".", "b", "?">>, <<"a", "_", "b">>,
   <<"b", "a">>}

KeyOptions ==
  {NoneSeq, Some(<< <<"x">>, <<"y">> >>), Some(<< <<"Y", ".">>, <<"x">> >>)}

KeyQueries ==
  {[content |-> c, type |-> Some(t), options |-> o] :
     c \in KeyContents, t \in {0, 1}, o \in KeyOptions}

SubmitKey(q) ==
  /\ Len(wt) < MaxKeyWT
  /\ wt' = Append(wt, NewTask(q, <<<<"Like", A("Like", Some(0), Some(<<"B">>), TRUE, "")>>>>))
  /\ UNCHANGED <<storeVars, commits, lastRun, reqVars, semVars, pureVars>>

(* _find_by_normalized run in a session of its own: it sees committed rows. *)
KeyLookup(q) ==
  /\ LET found == _find_by_normalized(questions, q)
     IN lookup' = [done |-> TRUE, query |-> q, raised |-> found.raised,
                   row |-> found.row, seen |-> commits]
  /\ UNCHANGED <<storeVars, wtVars, reqVars, semVars, call, resolveVars, agg, matcher, normal, registry, fan, sess, emb, read>>

DoSubmitKey == \E q \in KeyQueries : SubmitKey(q)
DoKeyLookup == \E q \in KeyQueries : KeyLookup(q)

NextKey == DoSubmitKey \/ WTNext \/ DoKeyLookup

SpecKey == Init /\ [][NextKey]_vars

(***************************************************************************)
(* An adapter's public search called directly (SpecAdapter).               *)
(***************************************************************************)
UpstreamsOf(adapter) ==
  CASE adapter = "Wanneng" -> WannengUpstreams
    [] adapter = "Like" -> LikeUpstreams
    [] OTHER -> LocalUpstreams

(* Providersbase.search: the result of _search; an exception is logged and
   raised again. *)
Providersbase_search(adapter, q, config, upstream) ==
  CASE adapter = "Local" -> Local__search(q, upstream)
    [] adapter = "Wanneng" -> {Wanneng__search(q, config, upstream)}
    [] OTHER -> {Like__search(q, config, upstream)}

AdapterCall(adapter, q, config, upstream) ==
  /\ \E res \in Providersbase_search(adapter, q, config, upstream) :
       call' = [done |-> TRUE, adapter |-> adapter, query |-> q, config |-> config,
                upstream |-> upstream, res |-> res]
  /\ UNCHANGED <<storeVars, wtVars, reqVars, semVars, lookup, resolveVars, agg, matcher, normal, registry, fan, sess, emb, read>>

DoAdapterCall ==
  \E adapter \in _achievelist, q \in Queries \cup KeyQueries, config \in ProviderConfigs :
    \E upstream \in UpstreamsOf(adapter) : AdapterCall(adapter, q, config, upstream)

NextAdapter == DoAdapterCall

SpecAdapter == Init /\ [][NextAdapter]_vars

(***************************************************************************)
(* The Local adapter over a store filled by write-through (SpecLocal).     *)
(***************************************************************************)
MaxLocalWT == 2

SubmitLocal(q, batch) ==
  /\ Len(wt) < MaxLocalWT
  /\ wt' = Append(wt, NewTask(q, batch))
  /\ UNCHANGED <<storeVars, commits, lastRun, reqVars, semVars, pureVars>>

(* The pairs of one request: one answer, or the answers of two providers. *)
LocalBatches ==
  {<<<<"Wanneng", A("Wanneng", Some(0), Some(<<"A">>), TRUE, "")>>>>,
   <<<<"Like", A("Like", Some(0), Some(<<"B">>), TRUE, "")>>>>,
   <<<<"Wanneng", A("Wanneng", Some(0), Some(<<"A">>), TRUE, "")>>,
     <<"Like", A("Like", Some(0), Some(<<"B">>), TRUE, "")>>>>}

DoSubmitLocal == \E q \in {QA, QB}, batch \in LocalBatches : SubmitLocal(q, batch)

DoLocalCall ==
  \E q \in Queries, db \in LocalUpstreams : AdapterCall("Local", q, "valid", db)

NextLocal == DoSubmitLocal \/ WTNext \/ DoLocalCall

SpecLocal == Init /\ [][NextLocal]_vars

(***************************************************************************)
(* SpecResolve: the provider resolution of the search handler over the     *)
(* provider configs stored for the caller's token.                         *)
(***************************************************************************)
MaxReqProviders == 2

ResolveNames == {"Wanneng", "Like"}
ConfigKeys == {"key", "model"}
EmptyConfig == [k \in {} |-> ""]
NoneConfig == [some |-> FALSE, val |-> EmptyConfig]

(* The dicts over ConfigKeys whose values all are v. *)
ConfigsOver(v) == UNION {[K -> {v}] : K \in SUBSET ConfigKeys}
StoredConfigs == ConfigsOver("stored")
RequestConfigs == {NoneConfig} \cup {Some(c) : c \in ConfigsOver("request")}

Provider(name, priority, config) ==
  [name |-> name, priority |-> priority, config |-> config]

RequestProviders ==
  {Provider(n, 1, c) : n \in ResolveNames, c \in RequestConfigs}

(* The providers field of a request: absent, or a list. *)
RequestLists ==
  {NoneSeq} \cup
  {Some(l) : l \in UNION {[1..n -> RequestProviders] : n \in 0..MaxReqProviders}}

_merge_config_BaseWins(base, override) ==
  LET upd == IF override.some THEN override.val ELSE EmptyConfig
  IN [k \in DOMAIN base \cup DOMAIN upd |->
        IF k \in DOMAIN base THEN base[k] ELSE upd[k]]

(* _merge_config: a copy of base, updated with the keys of override. *)
_merge_config(base, override) ==
  LET upd == IF override.some THEN override.val ELSE EmptyConfig
  IN [k \in DOMAIN base \cup DOMAIN upd |->
        IF k \in DOMAIN upd THEN upd[k] ELSE base[k]]

(* token_config_map: the enabled stored rows by provider name. *)
token_config_map(rows) ==
  LET enabled == {i \in DOMAIN rows : rows[i].enabled}
  IN [n \in {rows[i].provider_name : i \in enabled} |->
        rows[CHOOSE i \in enabled : rows[i].provider_name = n]]

IsEnabled(row) == row.enabled

_resolve_providers(request_providers, rows) ==
  IF ~request_providers.some \/ request_providers.val = <<>>
  THEN LET on == SelectSeq(rows, IsEnabled)
       IN [i \in DOMAIN on |-> Provider(on[i].provider_name, 0, Some(on[i].config_json))]
  ELSE LET req == request_providers.val
           map == token_config_map(rows)
       IN [i \in DOMAIN req |->
             IF req[i].name \in DOMAIN map
             THEN Provider(req[i].name, req[i].priority,
                           Some(_merge_config(map[req[i].name].config_json, req[i].config)))
             ELSE Provider(req[i].name, req[i].priority,
                           Some(IF req[i].config.some THEN req[i].config.val
                                ELSE EmptyConfig))]

(* upsert_provider_config: the row of the name is updated in the fields
   given, or a new row is added, enabled unless said otherwise. *)
upsert_provider_config(provider_name, config_json, enabled) ==
  /\ IF \E i \in DOMAIN token_configs : token_configs[i].provider_name = provider_name
     THEN token_configs' =
            [i \in DOMAIN token_configs |->
               IF token_configs[i].provider_name # provider_name THEN token_configs[i]
               ELSE [token_configs[i] EXCEPT
                       !.config_json = IF config_json.some THEN config_json.val ELSE @,
                       !.enabled = IF enabled.some THEN enabled.val ELSE @]]
     ELSE token_configs' =
            Append(token_configs,
                   [provider_name |-> provider_name,
                    config_json |-> IF config_json.some THEN config_json.val
                                    ELSE EmptyConfig,
                    enabled |-> IF enabled.some THEN enabled.val ELSE TRUE])
  /\ UNCHANGED <<storeVars, wtVars, reqVars, semVars, lookup, call, resolution, agg, matcher, normal, registry, fan, sess, emb, read>>

(* The first step of the search handler. *)
Resolve(request_providers) ==
  /\ resolution' = [done |-> TRUE, request |-> request_providers,
                    result |-> _resolve_providers(request_providers, token_configs)]
  /\ UNCHANGED <<storeVars, wtVars, reqVars, semVars, lookup, call, token_configs, agg, matcher, normal, registry, fan, sess, emb, read>>

(* The request ends. *)
ResolveEnd ==
  /\ resolution.done
  /\ resolution' = NoResolution
  /\ UNCHANGED <<storeVars, wtVars, reqVars, semVars, lookup, call, token_configs, agg, matcher, normal, registry, fan, sess, emb, read>>

(* The configs are edited between two requests: a resolution has read its
   rows at once, and a later edit does not reach it. *)
DoUpsert ==
  /\ ~resolution.done
  /\ \E n \in ResolveNames, c \in {NoneConfig} \cup {Some(x) : x \in StoredConfigs},
        e \in {NoneBool, Some(TRUE), Some(FALSE)} : upsert_provider_config(n, c, e)

(* One request at a time. *)
DoResolve ==
  /\ ~resolution.done
  /\ \E r \in RequestLists : Resolve(r)

NextResolve == DoUpsert \/ DoResolve \/ ResolveEnd

SpecResolve == Init /\ [][NextResolve]_vars

(***************************************************************************)
(* SpecAgg: the aggregator answer_match applied to a request and the list  *)
(* of adapter answers handed to it.                                        *)
(***************************************************************************)
MaxAdapterAns == 2

(* The words of the two lists, the Chinese ones and the signs in Latin
   transcription: dui is the word for right, cuo the word for wrong. *)
TRUE_LIST ==
  {"zhengque", "dui", "check", "root", "v", "shi", "T", "t", "Y", "y", "zhong"}
FALSE_LIST ==
  {"cuowu", "cuo", "cross", "cha", "times", "fou", "budui", "buzhengque",
   "f", "F", "n", "N", "fouding", "buzhong"}

AggTypes == {1, 3}
AggOptions == {NoneSeq, Some(<<>>), Some(<<"x", "y">>), Some(<<"dui", "cuo">>)}
Srequests == {[type |-> t, options |-> o] : t \in AggTypes, o \in AggOptions}

AdapterAns(ans, anstype) == [answer |-> ans, type |-> anstype]
AdapterAnswers ==
  {<<>>, <<"x">>, <<"y">>, <<"x", "y">>, <<"z">>, <<"dui">>, <<"zhengque">>, <<"cuo">>}
AdapterAnsLists ==
  UNION {[1..n -> {AdapterAns(a, t) : a \in AdapterAnswers, t \in AggTypes}] :
           n \in 0..MaxAdapterAns}

SeqRange(seq) == {seq[i] : i \in DOMAIN seq}

RECURSIVE Flatten(_)
Flatten(seqs) ==
  IF seqs = <<>> THEN <<>>
  ELSE Flatten(SubSeq(seqs, 1, Len(seqs) - 1)) \o seqs[Len(seqs)]

(* The key counted for one answer j of an adapter, if any. *)
CountedKey(req, j) ==
  IF req.type \in {0, 1}
  THEN IF req.options.some
       THEN IF j \in SeqRange(req.options.val) THEN <<j>> ELSE <<>>
       ELSE <<j>>
  ELSE IF req.type = 3
       THEN IF j \in TRUE_LIST THEN <<"dui">>
            ELSE IF j \in FALSE_LIST THEN <<"cuo">> ELSE <<>>
       ELSE <<j>>

(* The keys counted, in the order of the loop over the adapters and their
   answers; an adapter answer of another type is skipped. *)
CountedKeys(req, _adapter_ans) ==
  Flatten([k \in DOMAIN _adapter_ans |->
             IF _adapter_ans[k].type # req.type THEN <<>>
             ELSE Flatten([m \in DOMAIN _adapter_ans[k].answer |->
                             CountedKey(req, _adapter_ans[k].answer[m])])])

RECURSIVE FirstSeen(_)
FirstSeen(keys) ==
  IF keys = <<>> THEN <<>>
  ELSE LET before == FirstSeen(SubSeq(keys, 1, Len(keys) - 1))
           last == keys[Len(keys)]
       IN IF last \in SeqRange(before) THEN before ELSE Append(before, last)

answer_counts_Ones(keys) ==
  LET seen == FirstSeen(keys)
  IN [i \in DOMAIN seen |-> [ans |-> seen[i], count |-> 1]]

(* answer_counts: a dict, hence its items in the order of first insertion. *)
answer_counts(keys) ==
  LET seen == FirstSeen(keys)
  IN [i \in DOMAIN seen |->
        [ans |-> seen[i],
         count |-> Cardinality({k \in DOMAIN keys : keys[k] = seen[i]})]]

bestAnswer_FirstOfTies(counts) ==
  LET _max == CHOOSE c \in {counts[i].count : i \in DOMAIN counts} :
                \A i \in DOMAIN counts : counts[i].count <= c
      first == CHOOSE i \in DOMAIN counts :
                 /\ counts[i].count = _max
                 /\ \A j \in DOMAIN counts : counts[j].count = _max => i <= j
  IN <<counts[first].ans>>

(* The answers with the highest count, in the order of the dict. *)
bestAnswer(counts) ==
  LET _max == CHOOSE c \in {counts[i].count : i \in DOMAIN counts} :
                \A i \in DOMAIN counts : counts[i].count <= c
      IsBest(item) == item.count = _max
      best == SelectSeq(counts, IsBest)
  IN [i \in DOMAIN best |-> best[i].ans]

(* list.index: the position of the first occurrence, from 0. *)
index(options, a) ==
  (CHOOSE i \in DOMAIN options :
     options[i] = a /\ \A j \in DOMAIN options : options[j] = a => i <= j) - 1

Letter(i) == <<"A", "B", "C", "D">>[i + 1]

(* The parts of answerText, joined by the delimiter. *)
RECURSIVE JoinHash(_)
JoinHash(parts) ==
  IF Len(parts) <= 1 THEN parts
  ELSE JoinHash(SubSeq(parts, 1, Len(parts) - 1)) \o <<"#", parts[Len(parts)]>>

AggRaised ==
  [raised |-> TRUE, bestAnswer |-> <<>>, answerKey |-> <<>>, answerKeyText |-> <<>>,
   answerIndex |-> <<>>, answerText |-> <<>>]

(* answer_match: max of an empty dict raises ValueError, and so does
   list.index for a best answer that is no option. *)
answer_match(req, _adapter_ans) ==
  LET counts == answer_counts(CountedKeys(req, _adapter_ans))
  IN IF counts = <<>> THEN AggRaised
     ELSE LET best == bestAnswer(counts)
          IN IF best # <<>> /\ req.options.some /\ req.options.val # <<>>
             THEN IF \E i \in DOMAIN best : best[i] \notin SeqRange(req.options.val)
                  THEN AggRaised
                  ELSE [raised |-> FALSE, bestAnswer |-> best,
                        answerKey |->
                          [i \in DOMAIN best |-> Letter(index(req.options.val, best[i]))],
                        answerKeyText |->
                          [i \in DOMAIN best |-> Letter(index(req.options.val, best[i]))],
                        answerIndex |->
                          [i \in DOMAIN best |-> index(req.options.val, best[i])],
                        answerText |-> JoinHash(best)]
             ELSE [raised |-> FALSE, bestAnswer |-> best, answerKey |-> <<>>,
                   answerKeyText |-> <<>>, answerIndex |-> <<>>, answerText |-> <<>>]

(* One request: search_use hands the answers it gathered to answer_match
   and returns what it returns. *)
Aggregate(req, _adapter_ans) ==
  /\ agg' = [done |-> TRUE, request |-> req, answers |-> _adapter_ans,
             res |-> answer_match(req, _adapter_ans)]
  /\ UNCHANGED <<storeVars, wtVars, reqVars, semVars, lookup, call, resolveVars, matcher, normal, registry, fan, sess, emb, read>>

DoAggregate ==
  /\ ~agg.done
  /\ \E req \in Srequests, _adapter_ans \in AdapterAnsLists : Aggregate(req, _adapter_ans)

(* The request ends. *)
AggEnd ==
  /\ agg.done
  /\ agg' = NoAgg
  /\ UNCHANGED <<storeVars, wtVars, reqVars, semVars, lookup, call, resolveVars, matcher, normal, registry, fan, sess, emb, read>>

NextAgg == DoAggregate \/ AggEnd

SpecAgg == Init /\ [][NextAgg]_vars

(***************************************************************************)
(* SpecMatch: the answer matcher, calculate_match_score on a pair of       *)
(* strings and build_choice_answer_from_keys on the keys and the text of   *)
(* an upstream.  A score is the fraction num / den.                        *)
(***************************************************************************)
MaxMatchLen == 2
MaxKeys == 2

(* yu, ji and yi ji stand for the conjunctions the matcher unifies, he for
   the one they are unified to. *)
MatchChars == {"a", "A", "b", "?", "yu"}
MatchStrings == UNION {[1..n -> MatchChars] : n \in 0..MaxMatchLen}

Upper(c) == CASE c = "a" -> "A" [] c = "b" -> "B" [] c = "z" -> "Z" [] OTHER -> c

(* str.replace: every occurrence of old, from the left and without
   overlap, becomes new. *)
RECURSIVE str_replace(_, _, _)
str_replace(s, old, new) ==
  IF Len(s) < Len(old) THEN s
  ELSE IF SubSeq(s, 1, Len(old)) = old
  THEN new \o str_replace(SubSeq(s, Len(old) + 1, Len(s)), old, new)
  ELSE <<Head(s)>> \o str_replace(Tail(s), old, new)

normalize_for_match_LongestFirst(text) ==
  LET lowered == [i \in DOMAIN text |-> Lower(text[i])]
      kept == SelectSeq(lowered, IsWordChar)
  IN str_replace(str_replace(str_replace(kept, <<"yi", "ji">>, <<"he">>),
                             <<"yu">>, <<"he">>), <<"ji">>, <<"he">>)

(* normalize_for_match: lower case, the characters that are no word
   characters removed, then the three replacements in the order written. *)
normalize_for_match(text) ==
  IF text = <<>> THEN <<>>
  ELSE LET lowered == [i \in DOMAIN text |-> Lower(text[i])]
           kept == SelectSeq(lowered, IsWordChar)
       IN str_replace(str_replace(str_replace(kept, <<"yu">>, <<"he">>),
                                  <<"ji">>, <<"he">>), <<"yi", "ji">>, <<"he">>)

(* s in t, of two strings. *)
IsSubstring(s, t) ==
  \E i \in 0..(Len(t) - Len(s)) : SubSeq(t, i + 1, i + Len(s)) = s

(* Row i of the table of _longest_common_substring_length: entry j is the
   length of the longest common suffix of s1[..i] and s2[..j]. *)
RECURSIVE LcsRow(_, _, _)
LcsRow(s1, s2, i) ==
  IF i = 0 THEN [j \in 0..Len(s2) |-> 0]
  ELSE LET prev == LcsRow(s1, s2, i - 1)
       IN [j \in 0..Len(s2) |->
             IF j > 0 /\ s1[i] = s2[j] THEN prev[j - 1] + 1 ELSE 0]

SetMax(S) == CHOOSE m \in S : \A x \in S : x <= m

_longest_common_substring_length(s1, s2) ==
  IF s1 = <<>> \/ s2 = <<>> THEN 0
  ELSE SetMax({0} \cup {LcsRow(s1, s2, i)[j] : i \in 1..Len(s1), j \in 1..Len(s2)})

Score(num, den) == [num |-> num, den |-> den]

(* score >= num / den *)
ScoreAtLeast(score, num, den) == score.num * den >= num * score.den

calculate_match_score_NoEmptyCheck(answer, option) ==
  IF normalize_for_match(answer) = normalize_for_match(option) THEN Score(1, 1)
  ELSE Score(0, 1)

calculate_match_score(answer, option) ==
  IF answer = <<>> \/ option = <<>> THEN Score(0, 1)
  ELSE LET norm_answer == normalize_for_match(answer)
           norm_option == normalize_for_match(option)
       IN IF norm_answer = <<>> \/ norm_option = <<>> THEN Score(0, 1)
          ELSE IF norm_answer = norm_option THEN Score(1, 1)
          ELSE IF IsSubstring(norm_answer, norm_option)
               THEN Score(95 * Len(norm_answer), 100 * Len(norm_option))
          ELSE IF IsSubstring(norm_option, norm_answer)
               THEN Score(90 * Len(norm_option), 100 * Len(norm_answer))
          ELSE LET intersection ==
                     Cardinality(SeqRange(norm_answer) \cap SeqRange(norm_option))
                   union == Cardinality(SeqRange(norm_answer) \cup SeqRange(norm_option))
                   lcs_len == _longest_common_substring_length(norm_answer, norm_option)
                   longer == SetMax({Len(norm_answer), Len(norm_option)})
               IN (* jaccard * 0.4 + lcs_ratio * 0.6 *)
                  Score(4 * intersection * longer + 6 * lcs_len * union,
                        10 * union * longer)

(* _match_text_to_options with threshold 0.5: the indices matched, from 0
   and ascending; none is a failure.  The sort by score is stable, so the
   best option is the first one with the highest score. *)
_match_text_to_options_ThresholdOnly(answer_text, options, is_multiple) ==
  {i - 1 : i \in {j \in DOMAIN options :
                    ScoreAtLeast(calculate_match_score(answer_text, options[j]), 1, 2)}}

_match_text_to_options(answer_text, options, is_multiple) ==
  IF answer_text = <<>> \/ options = <<>> THEN {}
  ELSE LET score(i) == calculate_match_score(answer_text, options[i])
           best == CHOOSE i \in DOMAIN options :
                     /\ \A j \in DOMAIN options :
                          ScoreAtLeast(score(i), score(j).num, score(j).den)
                     /\ \A j \in 1..(i - 1) :
                          ~ScoreAtLeast(score(j), score(i).num, score(i).den)
           above == {i \in DOMAIN options : ScoreAtLeast(score(i), 1, 2)}
           matched ==
             IF is_multiple /\ above # {} THEN above
             ELSE IF ScoreAtLeast(score(best), 3, 10) THEN {best} ELSE {}
       IN {i - 1 : i \in matched}

(* The members of a set of indices in ascending order, as option keys. *)
RECURSIVE KeysOf(_)
KeysOf(indices) ==
  IF indices = {} THEN <<>>
  ELSE LET last == SetMax(indices)
       IN Append(KeysOf(indices \ {last}), Letter(last))

MatchError(provider_name, question_type) ==
  A(provider_name, Some(question_type), NoneSeq, FALSE, "match_error")

build_choice_answer(provider_name, answer_text, options, question_type) ==
  IF ~options.some \/ options.val = <<>> THEN MatchError(provider_name, question_type)
  ELSE IF answer_text = <<>> THEN MatchError(provider_name, question_type)
  ELSE LET indices == _match_text_to_options(answer_text, options.val, question_type = 1)
       IN IF indices # {}
          THEN A(provider_name, Some(IF Cardinality(indices) > 1 THEN 1 ELSE 0),
                 Some(KeysOf(indices)), TRUE, "")
          ELSE MatchError(provider_name, question_type)

(* key.upper().strip() *)
RECURSIVE strip(_)
strip(s) ==
  IF s = <<>> THEN <<>>
  ELSE IF IsSpaceChar(Head(s)) THEN strip(Tail(s))
  ELSE IF IsSpaceChar(s[Len(s)]) THEN strip(SubSeq(s, 1, Len(s) - 1))
  ELSE s

KeyUpper(key) == strip([i \in DOMAIN key |-> Upper(key[i])])

IsValidKey_AnyLetter(key_upper, options) ==
  Len(key_upper) = 1 /\ Code("A") <= Code(key_upper[1])

(* len(key_upper) == 1 and 'A' <= key_upper <= chr(64 + len(options)) *)
IsValidKey(key_upper, options) ==
  /\ Len(key_upper) = 1
  /\ Code("A") <= Code(key_upper[1]) /\ Code(key_upper[1]) <= 64 + Len(options)
  /\ Code(key_upper[1]) - 65 < Len(options)

(* ' '.join(answer_keys) *)
RECURSIVE JoinSpace(_)
JoinSpace(keys) ==
  IF keys = <<>> THEN <<>>
  ELSE IF Len(keys) = 1 THEN keys[1]
  ELSE JoinSpace(SubSeq(keys, 1, Len(keys) - 1)) \o <<" ">> \o keys[Len(keys)]

(* answer_text or ' '.join(answer_keys) *)
TextToMatch(answer_keys, answer_text) ==
  IF answer_text.some /\ answer_text.val # <<>> THEN answer_text.val
  ELSE JoinSpace(answer_keys)

build_choice_answer_from_keys(provider_name, answer_keys, answer_text, options, question_type) ==
  IF ~options.some \/ options.val = <<>> THEN MatchError(provider_name, question_type)
  ELSE LET upper == [i \in DOMAIN answer_keys |-> KeyUpper(answer_keys[i])]
           IsValid(k) == IsValidKey(k, options.val)
           valid == SelectSeq(upper, IsValid)
           valid_keys == [i \in DOMAIN valid |-> valid[i][1]]
       IN IF valid_keys # <<>>
          THEN A(provider_name, Some(IF Len(valid_keys) > 1 THEN 1 ELSE 0),
                 Some(valid_keys), TRUE, "")
          ELSE build_choice_answer(provider_name, TextToMatch(answer_keys, answer_text),
                                   options, question_type)

(* The inputs of build_choice_answer_from_keys. *)
UpstreamKeys == {<<"A">>, <<"b">>, <<"Z">>, <<"A", "B">>, <<" ", "a">>}
UpstreamKeyLists == UNION {[1..n -> UpstreamKeys] : n \in 0..MaxKeys}
UpstreamTexts ==
  {NoneSeq, Some(<<>>), Some(<<"a", "b">>), Some(<<"b">>), Some(<<"?">>)}
MatchOptions ==
  {NoneSeq, Some(<<>>), Some(<<<<"a", "b">>, <<"b">>>>),
   Some(<<<<"a", "b">>, <<"A", "?", "b">>>>)}

CallScore(answer, option) ==
  /\ matcher' = [NoMatcher EXCEPT !.done = TRUE, !.kind = "score",
                                  !.answer = answer, !.option = option,
                                  !.score = calculate_match_score(answer, option)]
  /\ UNCHANGED <<storeVars, wtVars, reqVars, semVars, lookup, call, resolveVars, agg, normal, registry, fan, sess, emb, read>>

CallBuild(answer_keys, answer_text, options, question_type) ==
  /\ matcher' = [NoMatcher EXCEPT
                   !.done = TRUE, !.kind = "build",
                   !.answer_keys = answer_keys, !.answer_text = answer_text,
                   !.options = options, !.question_type = question_type,
                   !.res = build_choice_answer_from_keys("Like", answer_keys, answer_text,
                                                         options, question_type)]
  /\ UNCHANGED <<storeVars, wtVars, reqVars, semVars, lookup, call, resolveVars, agg, normal, registry, fan, sess, emb, read>>

(* The call has returned. *)
MatcherEnd ==
  /\ matcher.done
  /\ matcher' = NoMatcher
  /\ UNCHANGED <<storeVars, wtVars, reqVars, semVars, lookup, call, resolveVars, agg, normal, registry, fan, sess, emb, read>>

DoCallScore ==
  /\ ~matcher.done
  /\ \E answer \in MatchStrings, option \in MatchStrings : CallScore(answer, option)

DoCallBuild ==
  /\ ~matcher.done
  /\ \E answer_keys \in UpstreamKeyLists, answer_text \in UpstreamTexts,
        options \in MatchOptions, question_type \in {0, 1} :
       CallBuild(answer_keys, answer_text, options, question_type)

NextMatch == DoCallScore \/ DoCallBuild \/ MatcherEnd

SpecMatch == Init /\ [][NextMatch]_vars

(***************************************************************************)
(* SpecSelect: build_choice_answer called by an adapter with the text of   *)
(* an upstream answer and one to three options.                            *)
(***************************************************************************)
MaxSelectOptions == 3

(* Options that score 1, 0.7, 0.55, 0.5, 0.475, 0.45, 0.2375 or 0 against
   one or another of the answer texts. *)
SelectStrings ==
  {<<"a", "b">>, <<"a">>, <<"b", "a">>, <<"b", "b", "b", "a">>, <<"a", "a">>, <<"?">>}

SelectOptions == UNION {[1..n -> SelectStrings] : n \in 1..MaxSelectOptions}

SelectTexts == {<<"a", "b">>, <<"a">>, <<"b">>}

CallSelect(answer_text, options, question_type) ==
  /\ matcher' = [NoMatcher EXCEPT
                   !.done = TRUE, !.kind = "select",
                   !.answer_text = Some(answer_text), !.options = Some(options),
                   !.question_type = question_type,
                   !.res = build_choice_answer("Like", answer_text, Some(options),
                                               question_type)]
  /\ UNCHANGED <<storeVars, wtVars, reqVars, semVars, lookup, call, resolveVars, agg, normal,
                 registry, fan, sess, emb, read>>

DoCallSelect ==
  /\ ~matcher.done
  /\ \E answer_text \in SelectTexts, options \in SelectOptions, question_type \in {0, 1} :
       CallSelect(answer_text, options, question_type)

NextSelect == DoCallSelect \/ MatcherEnd

SpecSelect == Init /\ [][NextSelect]_vars

(***************************************************************************)
(* SpecParticle: calculate_match_score of two texts that are one text with *)
(* one conjunction or another in the same place.                           *)
(***************************************************************************)
Particles == {<<"yu">>, <<"ji">>, <<"yi", "ji">>, <<"he">>}

ParticlePrefixes == {<<>>, <<"a">>, <<"A", "?">>, <<"b">>}
ParticleSuffixes == {<<>>, <<"b">>}

DoParticleScore ==
  /\ ~matcher.done
  /\ \E prefix \in ParticlePrefixes, suffix \in ParticleSuffixes, p1 \in Particles,
        p2 \in Particles :
       CallScore(prefix \o p1 \o suffix, prefix \o p2 \o suffix)

NextParticle == DoParticleScore \/ MatcherEnd

SpecParticle == Init /\ [][NextParticle]_vars

(***************************************************************************)
(* SpecNorm: the normalisation of the cache keys, normalize_text or        *)
(* normalize_options applied to an input and then to its own result.       *)
(***************************************************************************)
MaxNormLen == 3
MaxNormOptions == 2

NormChars == {"A", "a", " ", "."}
NormTexts == UNION {[1..n -> NormChars] : n \in 0..MaxNormLen}
NormOptionTexts == {<<>>, <<".">>, <<"a">>, <<"A", ".">>, <<"b">>}
NormOptions ==
  {NoneSeq} \cup {Some(o) : o \in UNION {[1..n -> NormOptionTexts] : n \in 0..MaxNormOptions}}

(* normalize_text(text) of the input, or of the result of the last pass. *)
PassText(text) ==
  /\ normal' = [normal EXCEPT
                  !.kind = "text", !.passes = @ + 1,
                  !.text_in = IF normal.passes = 0 THEN text ELSE @,
                  !.prev_text = text,
                  !.text = normalize_text(text)]
  /\ UNCHANGED <<storeVars, wtVars, reqVars, semVars, lookup, call, resolveVars, agg, matcher, registry, fan, sess, emb, read>>

(* normalize_options(options) of the input, or of the result of the last
   pass. *)
PassOptions(options) ==
  /\ normal' = [normal EXCEPT
                  !.kind = "options", !.passes = @ + 1,
                  !.options_in = IF normal.passes = 0 THEN options ELSE @,
                  !.prev_options = options,
                  !.options = normalize_options(options)]
  /\ UNCHANGED <<storeVars, wtVars, reqVars, semVars, lookup, call, resolveVars, agg, matcher, registry, fan, sess, emb, read>>

DoNormalizeText ==
  /\ normal.passes = 0
  /\ \E text \in NormTexts : PassText(text)

DoNormalizeOptions ==
  /\ normal.passes = 0
  /\ \E options \in NormOptions : PassOptions(options)

DoNormalizeAgain ==
  /\ normal.passes = 1
  /\ \/ normal.kind = "text" /\ PassText(normal.text)
     \/ normal.kind = "options" /\ PassOptions(normal.options)

NormEnd ==
  /\ normal.passes = 2
  /\ normal' = NoNormal
  /\ UNCHANGED <<storeVars, wtVars, reqVars, semVars, lookup, call, resolveVars, agg, matcher, registry, fan, sess, emb, read>>

NextNorm == DoNormalizeText \/ DoNormalizeOptions \/ DoNormalizeAgain \/ NormEnd

SpecNorm == Init /\ [][NextNorm]_vars

(***************************************************************************)
(* SpecRegistry: the adapter classes of the process are created one after  *)
(* the other at start-up and register themselves.  A class is numbered by  *)
(* its place in the loading order, an instance by the class it is of.      *)
(***************************************************************************)
MaxClasses == 4

(* The name attribute of a concrete class; the empty name is a class that
   declares none. *)
ClassNames == {"", "Local", "Wanneng", "Like"}

(* ProviderRegistry.register(plugin_cls) *)
register(reg, name, cls) ==
  [reg EXCEPT
     !._list = [n \in DOMAIN @ \cup {name} |-> IF n = name THEN cls ELSE @[n]],
     !._achievelist = [n \in DOMAIN @ \cup {name} |-> IF n = name THEN cls ELSE @[n]]]

(* Providersbase.__init_subclass__ of the class created next. *)
__init_subclass__(name) ==
  LET cls == registry.loaded + 1
      created == [registry EXCEPT !.loaded = cls, !.last = name]
  IN /\ registry' = IF name = "" THEN created ELSE register(created, name, cls)
     /\ UNCHANGED <<storeVars, wtVars, reqVars, semVars, lookup, call, resolveVars, agg,
                    matcher, normal, fan, sess, emb, read>>

LoadClass ==
  /\ registry.loaded < MaxClasses
  /\ \E name \in ClassNames : __init_subclass__(name)

(* The process starts again with an empty registry. *)
Restart ==
  /\ registry.loaded = MaxClasses
  /\ registry' = NoRegistry
  /\ UNCHANGED <<storeVars, wtVars, reqVars, semVars, lookup, call, resolveVars, agg,
                 matcher, normal, fan, sess, emb, read>>

NextRegistry == LoadClass \/ Restart

SpecRegistry == Init /\ [][NextRegistry]_vars

(***************************************************************************)
(* SpecFanOut: the fan-out of a request of up to MaxTasks calls, next to   *)
(* the fan-out of a second request that is served at the same time.  Each  *)
(* request has the semaphore its handler created.  SpecFanOutFair adds     *)
(* that the event loop runs a call that can take a permit, and that every  *)
(* adapter call ends.                                                      *)
(***************************************************************************)
MaxRivalTasks == 2

(* The exit of `async with sem`: the permit goes back whether the call
   returned or threw. *)
__aexit___ReturnedOnly(value, threw) == IF threw THEN value ELSE value + 1

__aexit__(value, threw) == value + 1

(* _call_adapter enters `async with sem` and calls the adapter. *)
FanAcquire ==
  /\ nWaiting > 0
  /\ ~SemLocked(semValue)
  /\ semValue' = semValue - 1
  /\ nWaiting' = nWaiting - 1
  /\ nRunning' = nRunning + 1
  /\ UNCHANGED <<nEnded, storeVars, wtVars, reqVars, lookup, call, resolveVars, agg,
                 matcher, normal, registry, fan, sess, emb, read>>

(* The adapter call ends and _call_adapter leaves `async with sem`. *)
FanRelease(threw) ==
  /\ nRunning > 0
  /\ semValue' = __aexit__(semValue, threw)
  /\ nRunning' = nRunning - 1
  /\ nEnded' = nEnded + 1
  /\ fan' = [fan EXCEPT !.threw = threw]
  /\ UNCHANGED <<nWaiting, storeVars, wtVars, reqVars, lookup, call, resolveVars, agg,
                 matcher, normal, registry, sess, emb, read>>

DoFanRelease == \E threw \in BOOLEAN : FanRelease(threw)

(* The same two steps of a call of the other request. *)
RivalAcquire ==
  /\ fan.nWaiting > 0
  /\ ~SemLocked(fan.semValue)
  /\ fan' = [fan EXCEPT !.semValue = @ - 1, !.nWaiting = @ - 1, !.nRunning = @ + 1]
  /\ UNCHANGED <<storeVars, wtVars, reqVars, semVars, lookup, call, resolveVars, agg,
                 matcher, normal, registry, sess, emb, read>>

RivalRelease(threw) ==
  /\ fan.nRunning > 0
  /\ fan' = [fan EXCEPT !.semValue = __aexit__(@, threw), !.nRunning = @ - 1,
                        !.nEnded = @ + 1]
  /\ UNCHANGED <<storeVars, wtVars, reqVars, semVars, lookup, call, resolveVars, agg,
                 matcher, normal, registry, sess, emb, read>>

DoRivalRelease == \E threw \in BOOLEAN : RivalRelease(threw)

InitFanOut ==
  /\ InitStore /\ InitRequest
  /\ lookup = NoLookup /\ call = NoCall
  /\ token_configs = <<>> /\ resolution = NoResolution
  /\ agg = NoAgg /\ matcher = NoMatcher /\ normal = NoNormal /\ registry = NoRegistry
  /\ sess = NoSess /\ emb = NoEmb /\ read = NoRead
  /\ semValue = MAX_CONCURRENT
  /\ nWaiting \in 1..MaxTasks
  /\ nRunning = 0
  /\ nEnded = 0
  /\ \E n \in 1..MaxRivalTasks : fan = [NoFan EXCEPT !.nWaiting = n]

NextFanOut == FanAcquire \/ DoFanRelease \/ RivalAcquire \/ DoRivalRelease

SpecFanOut == InitFanOut /\ [][NextFanOut]_vars

SpecFanOutFair ==
  /\ SpecFanOut
  /\ WF_vars(FanAcquire) /\ WF_vars(DoFanRelease)
  /\ WF_vars(RivalAcquire) /\ WF_vars(DoRivalRelease)

(***************************************************************************)
(* SpecSession: the database sessions of the tasks of a process.  A        *)
(* request handler works with the session of its request; it starts Local  *)
(* searches and a detached write-through task, which run on after the      *)
(* handler has returned.  Tasks and sessions are numbered in the order of  *)
(* their creation, a session by the task that opens it.                   *)
(***************************************************************************)
MaxSessTasks == 3

NoParent == 0

(* How the body of `async with db_manager.get_session()` ends: it returns,
   it returns and the commit fails, it raises an Exception, or the task is
   cancelled inside it (CancelledError is no Exception). *)
Outcomes == {"returned", "commit_failed", "raised", "cancelled"}

(* The session that a task has not opened, or not yet. *)
NoSession == [opener |-> 0, users |-> {}, closed |-> FALSE, tx |-> ""]

(* session = self._session_factory() *)
NewSession(opener) ==
  [opener |-> opener, users |-> {}, closed |-> FALSE, tx |-> "active"]

(* What get_session does with the session when the body has ended:
   commit, or rollback in `except Exception`, and close in `finally`.
   Closing a session ends a transaction that is still active by rolling
   it back. *)
get_session_exit(session, outcome) ==
  [session EXCEPT !.closed = TRUE,
                  !.tx = IF outcome = "returned" THEN "committed" ELSE "rolled_back"]

TaskSession_OfRequest(kind, request_session, fresh) ==
  IF kind = "write" THEN request_session ELSE fresh

(* The session a task works with: the handler the one of the request's
   dependency, a Local search and a write-through task the one they open
   themselves. *)
TaskSession(kind, request_session, fresh) == fresh

SessTask(kind, parent) ==
  [kind |-> kind, parent |-> parent, pc |-> "start", session |-> 0, outcome |-> ""]

(* A request arrives: a task to handle it. *)
StartRequest ==
  /\ Len(sess.tasks) < MaxSessTasks
  /\ sess' = [sess EXCEPT !.tasks = Append(@, SessTask("handler", NoParent)),
                          !.sessions = Append(@, NoSession)]
  /\ UNCHANGED <<storeVars, wtVars, reqVars, semVars, lookup, call, resolveVars, agg,
                 matcher, normal, registry, fan, emb, read>>

(* asyncio.create_task of a Local search or of save_cache_async, by a
   handler that is at work. *)
CreateTask(h, kind) ==
  /\ Len(sess.tasks) < MaxSessTasks
  /\ sess.tasks[h].kind = "handler" /\ sess.tasks[h].pc = "body"
  /\ sess' = [sess EXCEPT !.tasks = Append(@, SessTask(kind, h)),
                          !.sessions = Append(@, NoSession)]
  /\ UNCHANGED <<storeVars, wtVars, reqVars, semVars, lookup, call, resolveVars, agg,
                 matcher, normal, registry, fan, emb, read>>

(* The task enters its `async with db_manager.get_session()`. *)
EnterSession(t) ==
  /\ sess.tasks[t].pc = "start"
  /\ LET parent == sess.tasks[t].parent
         request_session == IF parent = NoParent THEN 0 ELSE sess.tasks[parent].session
         fresh == t
         mine == TaskSession(sess.tasks[t].kind, request_session, fresh)
     IN sess' = [sess EXCEPT
                   !.sessions[t] = IF mine = fresh THEN NewSession(t) ELSE @,
                   !.tasks[t].session = mine,
                   !.tasks[t].pc = "body"]
  /\ UNCHANGED <<storeVars, wtVars, reqVars, semVars, lookup, call, resolveVars, agg,
                 matcher, normal, registry, fan, emb, read>>

(* The task runs a statement on its session. *)
UseSession(t) ==
  /\ sess.tasks[t].pc = "body"
  /\ t \notin sess.sessions[sess.tasks[t].session].users
  /\ sess' = [sess EXCEPT !.sessions[sess.tasks[t].session].users = @ \cup {t}]
  /\ UNCHANGED <<storeVars, wtVars, reqVars, semVars, lookup, call, resolveVars, agg,
                 matcher, normal, registry, fan, emb, read>>

(* The body of the task ends, and with it the session the task opened. *)
ExitSession(t, outcome) ==
  /\ sess.tasks[t].pc = "body"
  /\ LET s == sess.tasks[t].session
     IN sess' = [sess EXCEPT
                   !.sessions[s] = IF @.opener = t THEN get_session_exit(@, outcome) ELSE @,
                   !.tasks[t].pc = "done",
                   !.tasks[t].outcome = outcome]
  /\ UNCHANGED <<storeVars, wtVars, reqVars, semVars, lookup, call, resolveVars, agg,
                 matcher, normal, registry, fan, emb, read>>

(* Every task has ended: the tasks and their sessions are forgotten. *)
SessionsEnd ==
  /\ Len(sess.tasks) = MaxSessTasks
  /\ \A t \in DOMAIN sess.tasks : sess.tasks[t].pc = "done"
  /\ sess' = NoSess
  /\ UNCHANGED <<storeVars, wtVars, reqVars, semVars, lookup, call, resolveVars, agg,
                 matcher, normal, registry, fan, emb, read>>

DoCreateTask == \E h \in DOMAIN sess.tasks, kind \in {"local", "write"} : CreateTask(h, kind)

DoEnterSession == \E t \in DOMAIN sess.tasks : EnterSession(t)

DoUseSession == \E t \in DOMAIN sess.tasks : UseSession(t)

DoExitSession == \E t \in DOMAIN sess.tasks, outcome \in Outcomes : ExitSession(t, outcome)

NextSession ==
  \/ StartRequest \/ DoCreateTask \/ DoEnterSession \/ DoUseSession \/ DoExitSession
  \/ SessionsEnd

SpecSession == Init /\ [][NextSession]_vars

(***************************************************************************)
(* SpecEmbed: the two-tier question lookup.  Write-throughs run one after  *)
(* the other, each committed before the next starts, and lookups read the  *)
(* committed rows.  The embedding model is a table from texts to vectors;  *)
(* a vector is a point of a line and the cosine distance of two vectors    *)
(* their distance on it, in hundredths.  A row is numbered by the query    *)
(* whose write-through created it.                                         *)
(***************************************************************************)
EMBEDDING_SIMILARITY_THRESHOLD == 82
EMBEDDING_TOP_K == 5

(* A question, five more with the same content and other options or none,
   two with other contents and its options, one of another type. *)
EmbedDecoy(i) ==
  [content |-> <<"a">>, type |-> Some(0),
   options |-> IF i = 5 THEN NoneSeq ELSE Some(<< <<"x">>, [j \in 1..i |-> "a"] >>)]

EmbedQueries ==
  << [content |-> <<"a">>, type |-> Some(0), options |-> Some(<< <<"x">>, <<"y">> >>)],
     EmbedDecoy(1), EmbedDecoy(2), EmbedDecoy(3), EmbedDecoy(4), EmbedDecoy(5),
     [content |-> <<"a", "b">>, type |-> Some(0), options |-> Some(<< <<"y">>, <<"x">> >>)],
     [content |-> <<"b">>, type |-> Some(0), options |-> Some(<< <<"x">>, <<"y">> >>)],
     [content |-> <<"a">>, type |-> Some(1), options |-> Some(<< <<"x">>, <<"y">> >>)] >>

EmbedPositions == <<100, 101, 103, 104, 112, 113, 118, 119, 100>>

IdOf(q) == CHOOSE i \in DOMAIN EmbedQueries : EmbedQueries[i] = q

(* The outcome of the embedding client in an operation: it answers, it
   raises, or there is none. *)
EmbeddingServices == {"up", "fails", "absent"}

(* _build_embedding_text: the content and the options as given. *)
_build_embedding_text(q) ==
  [content |-> strip(q.content),
   options |-> IF q.options.some THEN q.options.val ELSE <<>>]

(* The vector of a text, for embed_query and embed_passage alike. *)
embed(text) ==
  EmbedPositions[CHOOSE i \in DOMAIN EmbedQueries :
                   _build_embedding_text(EmbedQueries[i]) = text]

cosine_distance(u, v) == IF u < v THEN v - u ELSE u - v

NoneFound == [raised |-> FALSE, row |-> NoRow]

(* The option check of the approximate tier. *)
OptionsAgree_Ignored(row, normalized_options) == TRUE

OptionsAgree(row, normalized_options) ==
  /\ row.normalized_options.some = normalized_options.some
  /\ row.normalized_options.some => row.normalized_options = normalized_options

_find_by_embedding(rows, q, service) ==
  IF service # "up" THEN NoneFound
  ELSE LET query_vector == embed(_build_embedding_text(q))
           distance(r) == cosine_distance(r.embedding.val, query_vector)
           candidates == {r \in rows : q.type.some /\ r.type = q.type.val /\ r.embedding.some}
           (* ORDER BY distance LIMIT EMBEDDING_TOP_K *)
           nearest == {r \in candidates :
                         Cardinality({s \in candidates : distance(s) < distance(r)})
                           < EMBEDDING_TOP_K}
           accepted == {r \in nearest :
                          /\ 100 - distance(r) >= EMBEDDING_SIMILARITY_THRESHOLD
                          /\ OptionsAgree(r, normalize_options(q.options))}
       IN IF accepted = {} THEN NoneFound
          ELSE [raised |-> FALSE,
                row |-> CHOOSE r \in accepted :
                          \A s \in accepted : distance(r) <= distance(s)]

CacheService_find_question_ExactOnly(rows, q, service) ==
  LET exact == _find_by_normalized(rows, q)
  IN [raised |-> exact.raised, row |-> exact.row, tier |-> "exact"]

CacheService_find_question_BothTiers(rows, q, service) ==
  LET exact == _find_by_normalized(rows, q)
      approximate == _find_by_embedding(rows, q, service)
  IN IF approximate.row # NoRow
     THEN [raised |-> FALSE, row |-> approximate.row, tier |-> "approximate"]
     ELSE [raised |-> exact.raised, row |-> exact.row, tier |-> "exact"]

(* CacheService.find_question: the result, and the tier that was the last
   one asked. *)
CacheService_find_question(rows, q, service) ==
  LET exact == _find_by_normalized(rows, q)
  IN IF exact.raised \/ exact.row # NoRow
     THEN [raised |-> exact.raised, row |-> exact.row, tier |-> "exact"]
     ELSE [raised |-> FALSE, row |-> _find_by_embedding(rows, q, service).row,
           tier |-> "approximate"]

_generate_embedding(q, service) ==
  IF service = "up" THEN Some(embed(_build_embedding_text(q))) ELSE NoneInt

(* A lookup of q, as query_cache_batch and Local make it. *)
EmbedFind(q, service) ==
  /\ LET found == CacheService_find_question(emb.rows, q, service)
     IN emb' = [emb EXCEPT !.last = [op |-> "find", query |-> IdOf(q), service |-> service,
                                     raised |-> found.raised, row |-> found.row.id,
                                     tier |-> found.tier, created |-> FALSE]]
  /\ UNCHANGED <<storeVars, wtVars, reqVars, semVars, lookup, call, resolveVars, agg,
                 matcher, normal, registry, fan, sess, read>>

(* batch_save_answers of q with one pair, the answer of the provider Like,
   run alone and committed.  The answer is numbered by the query it was
   given for. *)
EmbedSave(q, service) ==
  /\ LET found == CacheService_find_question(emb.rows, q, service)
         question ==
           IF found.row # NoRow THEN found.row
           ELSE [id |-> IdOf(q),
                 normalized_content |-> normalize_text(q.content),
                 type |-> q.type.val,
                 normalized_options |-> normalize_options(q.options),
                 embedding |-> _generate_embedding(q, service)]
     IN IF found.raised \/ (found.row = NoRow /\ ~q.type.some)
        THEN emb' = [emb EXCEPT !.last = [op |-> "save", query |-> IdOf(q),
                                          service |-> service, raised |-> TRUE, row |-> 0,
                                          tier |-> found.tier, created |-> FALSE]]
        ELSE emb' = [rows |-> emb.rows \cup {question},
                     links |-> {l \in emb.links : ~QpaWhere(l, question.id, "Like")}
                                 \cup {[question_id |-> question.id,
                                        provider_name |-> "Like", answer_id |-> IdOf(q)]},
                     last |-> [op |-> "save", query |-> IdOf(q), service |-> service,
                               raised |-> FALSE, row |-> question.id,
                               tier |-> found.tier, created |-> found.row = NoRow]]
  /\ UNCHANGED <<storeVars, wtVars, reqVars, semVars, lookup, call, resolveVars, agg,
                 matcher, normal, registry, fan, sess, read>>

(* The operation has returned. *)
EmbedEnd ==
  /\ emb.last.op # ""
  /\ emb' = [emb EXCEPT !.last = NoEmb.last]
  /\ UNCHANGED <<storeVars, wtVars, reqVars, semVars, lookup, call, resolveVars, agg,
                 matcher, normal, registry, fan, sess, read>>

(* The questions with the same content are written in their order, while
   the embedding client answers. *)
EmbedWritable(i, service) ==
  i \in 2..6 => /\ service = "up"
                /\ \A j \in 2..(i - 1) : \E r \in emb.rows : r.id = j

DoEmbedFind ==
  /\ emb.last.op = ""
  /\ \E i \in DOMAIN EmbedQueries, service \in EmbeddingServices :
       EmbedFind(EmbedQueries[i], service)

DoEmbedSave ==
  /\ emb.last.op = ""
  /\ \E i \in DOMAIN EmbedQueries, service \in EmbeddingServices :
       EmbedWritable(i, service) /\ EmbedSave(EmbedQueries[i], service)

NextEmbed == DoEmbedFind \/ DoEmbedSave \/ EmbedEnd

SpecEmbed == Init /\ [][NextEmbed]_vars

(***************************************************************************)
(* SpecRead: batch cache reads beside write-throughs.  A provider is a     *)
(* name with a configuration; write-throughs carry one pair each and run   *)
(* concurrently, a read runs in a session of its own and sees the          *)
(* committed rows.                                                         *)
(***************************************************************************)
MaxReadWT == 2

ReadProvider(name, config) == [name |-> name, config |-> config]

(* The provider lists of the reads: none, one, two, one that has stored
   nothing, one name under two configurations. *)
ReadProviderLists ==
  {<<>>,
   <<ReadProvider("Like", "c1")>>,
   <<ReadProvider("Like", "c2")>>,
   <<ReadProvider("Like", "c1"), ReadProvider("Wanneng", "c1")>>,
   <<ReadProvider("Like", "c2"), ReadProvider("Wanneng", "c2")>>,
   <<ReadProvider("Ghost", "c1"), ReadProvider("Like", "c1")>>,
   <<ReadProvider("Like", "c1"), ReadProvider("Like", "c2")>>}

Writers ==
  {ReadProvider("Like", "c1"), ReadProvider("Like", "c2"), ReadProvider("Wanneng", "c1")}

(* What a provider answers depends on its configuration. *)
WriterAnswer(p) ==
  A(p.name, Some(0), Some(<<IF p.config = "c1" THEN "A" ELSE "B">>), TRUE, "")

ProviderKey_Config(p) == p.config

(* provider.name: all that the cache takes of a provider. *)
ProviderKey(p) == p.name

ProviderNameIn_Any(row, provider_names) == TRUE

(* QuestionProviderAnswer.provider_name.in_(provider_names) *)
ProviderNameIn(row, provider_names) ==
  \E i \in DOMAIN provider_names : row.provider_name = provider_names[i]

(* CacheService.get_cached_answers: the dictionaries it can return, a none
   entry for each given name and then the answer of each row read under the
   row's provider name; with several rows of a name the last one iterated
   wins. *)
CacheService_get_cached_answers(question, provider_names) ==
  LET rows == {r \in question_provider_answers :
                 r.question_id = question.id /\ ProviderNameIn(r, provider_names)}
      keys == {provider_names[i] : i \in DOMAIN provider_names}
                \cup {r.provider_name : r \in rows}
  IN {cached \in [keys -> UNION {get_cached_answers(question, k) : k \in keys}] :
        \A k \in keys : cached[k] \in get_cached_answers(question, k)}

(* query_cache_batch over a list of providers. *)
database_query_cache_batch(q, providers) ==
  LET found == find_question(questions, q)
      provider_names == [i \in DOMAIN providers |-> ProviderKey(providers[i])]
  IN IF found.raised THEN {[raised |-> TRUE, cached |-> <<>>]}
     ELSE IF found.row = NoRow
     THEN {[raised |-> FALSE,
            cached |-> [k \in {ProviderKey(providers[i]) : i \in DOMAIN providers} |-> Miss]]}
     ELSE {[raised |-> FALSE, cached |-> cached] :
             cached \in CacheService_get_cached_answers(found.row, provider_names)}

(* The engine queues the pair of a provider for write-through. *)
SubmitRead(q, p) ==
  /\ Len(wt) < MaxReadWT
  /\ wt' = Append(wt, NewTask(q, << <<ProviderKey(p), WriterAnswer(p)>> >>))
  /\ read' = [read EXCEPT !.writers = Append(@, p)]
  /\ UNCHANGED <<storeVars, commits, lastRun, reqVars, semVars, lookup, call, resolveVars,
                 agg, matcher, normal, registry, fan, sess, emb>>

BatchRead(q, providers) ==
  /\ \E res \in database_query_cache_batch(q, providers) :
       read' = [read EXCEPT !.done = TRUE, !.query = q, !.providers = providers,
                            !.raised = res.raised, !.cached = res.cached,
                            !.seen = commits]
  /\ UNCHANGED <<storeVars, wtVars, reqVars, semVars, lookup, call, resolveVars, agg,
                 matcher, normal, registry, fan, sess, emb>>

(* The write-throughs are of one question; the reads are of the question
   written in another way and of a question that is not stored. *)
ReadQueries == {QB, [QA EXCEPT !.type = Some(1)]}

DoSubmitRead == \E p \in Writers : SubmitRead(QA, p)

DoBatchRead ==
  /\ ~read.done
  /\ \E q \in ReadQueries, providers \in ReadProviderLists : BatchRead(q, providers)

NextRead == DoSubmitRead \/ WTNext \/ DoBatchRead

SpecRead == Init /\ [][NextRead]_vars

(***************************************************************************)
(* SpecConfig: a provider under two configurations beside another.  The   *)
(* write-throughs of one question run concurrently and meet no database   *)
(* error; the reads name the provider under either configuration.         *)
(***************************************************************************)
MaxConfigWT == 3

SubmitConfig(p) ==
  /\ Len(wt) < MaxConfigWT
  /\ wt' = Append(wt, NewTask(QA, << <<ProviderKey(p), WriterAnswer(p)>> >>))
  /\ read' = [read EXCEPT !.writers = Append(@, p)]
  /\ UNCHANGED <<storeVars, commits, lastRun, reqVars, semVars, lookup, call, resolveVars,
                 agg, matcher, normal, registry, fan, sess, emb>>

(* The other provider is the first to be queued, if it is at all. *)
DoSubmitConfig ==
  \E p \in Writers : (p.name # "Like" => wt = <<>>) /\ SubmitConfig(p)

DoConfigRead ==
  /\ ~read.done
  /\ \E p \in {ReadProvider("Like", "c1"), ReadProvider("Like", "c2")} : BatchRead(QB, <<p>>)

NextConfig ==
  \/ DoSubmitConfig
  \/ DoFindOrCreateQuestion
  \/ DoFindOrCreateAnswer
  \/ DoUpsertQpa
  \/ DoCommit
  \/ DoConfigRead

SpecConfig == Init /\ [][NextConfig]_vars

(***************************************************************************)
(* Properties.                                                             *)
(***************************************************************************)
Entries == response[1].provider_answers
FreshEntry(i) == Entries[Len(answers_from_cache) + i]
Dispatched(name) == \E i \in DOMAIN valid_providers : valid_providers[i] = name
HitNames ==
  {reqlog.other_providers[i] : i \in {j \in DOMAIN reqlog.cached : reqlog.cached[j].hit}}
Requested == {providers_list[i] : i \in DOMAIN providers_list}

(* C1: fault isolation.  In every response, each registered provider that
   was not served from the cache has exactly one task, every task ran once
   and to its end whatever the other tasks returned or raised, and the entry
   of each task is a function of that task's own result alone; a failure
   answer or an exception of an adapter never ends the request without a
   response. *)
C1_FaultIsolation ==
  /\ pc = "responded" =>
       /\ Len(Entries) = Len(answers_from_cache) + Len(valid_providers)
       /\ \A n \in Requested :
            (n \in _achievelist /\ n \notin HitNames) =>
              Cardinality({i \in DOMAIN valid_providers : valid_providers[i] = n}) = 1
       /\ \A i \in DOMAIN tasks :
            /\ tasks[i].state = "ended"
            /\ tasks[i].calls = 1
            /\ tasks[i].res.kind = "answer" => FreshEntry(i) = tasks[i].res.a
            /\ tasks[i].res.kind = "exception" =>
                 /\ FreshEntry(i).provider = valid_providers[i]
                 /\ ~FreshEntry(i).success
  /\ (pc = "crashed" /\ tasks # <<>>) =>
       \E i \in DOMAIN tasks : tasks[i].res.kind = "none"

C1_Witness ==
  /\ pc = "responded"
  /\ \E i, j \in DOMAIN tasks :
       /\ i # j
       /\ tasks[i].res.kind = "exception"
       /\ tasks[j].res.kind = "answer" /\ tasks[j].res.a.success
       /\ FreshEntry(j) = tasks[j].res.a

(* C2: every dispatched adapter is called exactly once and has exactly one
   entry, its own answer or a synthesized unknown failure, and every request
   that dispatched adapters completes with a response. *)
C2_OneEntryPerDispatchedAdapter ==
  /\ (pc = "crashed") => tasks = <<>>
  /\ pc = "responded" =>
       /\ Len(Entries) = Len(answers_from_cache) + Len(valid_providers)
       /\ \A i \in DOMAIN tasks :
            /\ tasks[i].calls = 1
            /\ FreshEntry(i) =
                 IF tasks[i].res.kind = "answer" THEN tasks[i].res.a
                 ELSE A(valid_providers[i], query.type, NoneSeq, FALSE, "unknown")

(* C3: at most MAX_CONCURRENT adapter calls of a request are in progress. *)
C3_ConcurrencyBound == nRunning <= MAX_CONCURRENT

C3_Witness == nRunning = MAX_CONCURRENT /\ nWaiting > 0

(* C4: a provider for which the batch lookup returned an answer is not
   dispatched; its entry is the cached answer, a success, placed before the
   fresh entries. *)
C4_CacheHitNotDispatched ==
  pc \in {"gather", "responded", "crashed"} =>
    \A i \in DOMAIN reqlog.cached :
      reqlog.cached[i].hit =>
        /\ ~Dispatched(reqlog.other_providers[i])
        /\ reqlog.cached[i].a.success
        /\ \E k \in DOMAIN answers_from_cache : answers_from_cache[k] = reqlog.cached[i].a
        /\ pc = "responded" =>
             \E k \in 1..Len(answers_from_cache) : Entries[k] = reqlog.cached[i].a

C4_Witness ==
  /\ pc = "responded"
  /\ query = QB /\ commits > 0 /\ lastRun.query = QA
  /\ reqlog.cached # <<>>
  /\ \A i \in DOMAIN reqlog.cached : reqlog.cached[i].hit
  /\ tasks = <<>>
  /\ Len(Entries) = Len(providers_list)

(* C5: no task exists while the batch lookup is pending, and the handler is
   past the gather only when every task of the request has ended. *)
C5_LookupThenFanoutThenAggregate ==
  /\ pc = "lookup" => tasks = <<>>
  /\ pc \in {"responded", "crashed"} =>
       \A i \in DOMAIN tasks : tasks[i].state = "ended"

C5_Witness ==
  /\ pc = "responded"
  /\ Len(tasks) = MaxProviders
  /\ response # <<>>

(* C6: the write-through batch is exactly the fresh results that are
   answers with success=true from a provider other than Local, in task
   order, and a task is created exactly when the batch is not empty. *)
Qualifies(i) ==
  /\ tasks[i].res.kind = "answer"
  /\ tasks[i].res.a.success
  /\ valid_providers[i] # "Local"

C6_WriteThroughBatch ==
  pc = "responded" =>
    LET to_cache == reqlog.to_cache
        qualifying == {i \in DOMAIN tasks : Qualifies(i)}
    IN /\ Len(to_cache) = Cardinality(qualifying)
       /\ \A i \in qualifying :
            \E k \in DOMAIN to_cache : to_cache[k] = <<valid_providers[i], tasks[i].res.a>>
       /\ \A k \in DOMAIN to_cache :
            /\ to_cache[k][2].success
            /\ to_cache[k][1] \notin HitNames
            /\ to_cache[k][1] # "Local"
       /\ Len(wt) = reqlog.wt_before + (IF qualifying = {} THEN 0 ELSE 1)
       /\ (qualifying # {} /\ wt[Len(wt)].pc = "created") =>
            wt[Len(wt)].batch = to_cache /\ wt[Len(wt)].query = query

C6_Witness ==
  /\ pc = "responded"
  /\ \E i, j \in DOMAIN tasks :
       /\ valid_providers[i] = "Local" /\ tasks[i].res.a.success
       /\ tasks[j].res.kind = "exception"
  /\ reqlog.to_cache = <<>>
  /\ Len(wt) = reqlog.wt_before

(* C7: no error leaves a write-through task, and no step of a write-through
   task, failing or not, changes the state of the request or the response
   already built. *)
C7_WriteThroughContained ==
  /\ [](\A t \in DOMAIN wt : wt[t].pc # "raised")
  /\ [][WTNext => UNCHANGED <<pc, response>>]_vars

C7_Witness ==
  /\ pc = "responded"
  /\ nreq = 1
  /\ Len(wt) = 1 /\ wt[1].pc = "failed"
  /\ Len(Entries) > 0

(* C8: at most one question_provider_answers row per (question, provider). *)
C8_OneRowPerQuestionProvider ==
  \A r1, r2 \in question_provider_answers :
    (r1.question_id = r2.question_id /\ r1.provider_name = r2.provider_name) => r1 = r2

(* C9: at most one questions row per (normalized_content, type,
   normalized_options). *)
C9_OneQuestionPerKey ==
  \A r1, r2 \in questions :
    (/\ r1.normalized_content = r2.normalized_content
     /\ r1.type = r2.type
     /\ r1.normalized_options = r2.normalized_options) => r1 = r2

(* C10: a write-through that runs alone, right after a write-through with
   the same query and pairs that also ran alone, commits no change to the
   three tables. *)
C10_SecondRunChangesNothing ==
  [][\A t \in DOMAIN wt :
       (/\ WT_Commit(t)
        /\ wt[t].epoch = commits
        /\ lastRun.alone
        /\ lastRun.query = wt[t].query
        /\ lastRun.batch = wt[t].batch)
       => UNCHANGED <<questions, answers, question_provider_answers>>]_vars

(* C11: two queries of one type whose content and options differ only in
   punctuation, whitespace, letter case or option order have the same
   exact-lookup key, and after a write-through of one the exact lookup of the
   other returns the row written. *)
IsPunctuation(c) == c \in {".", "?", "_"}
CaseFold(c) == CASE c = "A" -> "a" [] c = "Y" -> "y" [] OTHER -> c
Plain(s) ==
  LET kept == SelectSeq(s, LAMBDA c : ~IsPunctuation(c) /\ c # " ")
  IN [i \in DOMAIN kept |-> CaseFold(kept[i])]
SameOptions(o1, o2) ==
  IF ~o1.some \/ ~o2.some THEN o1.some = o2.some
  ELSE /\ Len(o1.val) = Len(o2.val)
       /\ \A i \in DOMAIN o1.val :
            Cardinality({j \in DOMAIN o1.val : Plain(o1.val[j]) = Plain(o1.val[i])})
              = Cardinality({j \in DOMAIN o2.val : Plain(o2.val[j]) = Plain(o1.val[i])})
CosmeticTwins(q1, q2) ==
  /\ q1.type = q2.type
  /\ Plain(q1.content) = Plain(q2.content)
  /\ SameOptions(q1.options, q2.options)
KeyOf(q) == <<normalize_text(q.content), q.type, normalize_options(q.options)>>

C11_CacheKeyStability ==
  (lookup.done /\ commits > 0 /\ lookup.seen = commits /\ CosmeticTwins(lastRun.query, lookup.query)) =>
    /\ KeyOf(lastRun.query) = KeyOf(lookup.query)
    /\ ~lookup.raised
    /\ lookup.row # NoRow
    /\ lookup.row.normalized_content = normalize_text(lastRun.query.content)

(* C12: a request ends without a response exactly when its resolved provider
   list is empty, and then before any cache lookup or adapter call; every
   other request ends with a response. *)
C12_FailsOnlyOnEmptyList ==
  /\ pc = "rejected" =>
       /\ providers_list = <<>>
       /\ tasks = <<>> /\ reqlog = NoLog /\ response = <<>>
  /\ pc = "responded" => providers_list # <<>> /\ response # <<>>
  /\ pc # "crashed"

(* C13: a batch cache lookup that raises is taken as a miss for every
   provider: the handler goes on to the fan-out with every registered
   provider of the request dispatched. *)
C13_LookupErrorDegradesToMiss ==
  [][CacheLookupRaises =>
       /\ pc' = "gather"
       /\ {valid_providers'[i] : i \in DOMAIN valid_providers'} =
            {n \in Requested : get_adapter_achieve(n) # NoAdapter}]_vars

(* C14: a requested provider whose name is not in the registry is never
   called, has no entry in the response and is not counted; the response
   holds exactly the entries of the cache hits and of the registered
   providers, and the request does not fail for it. *)
C14_UnknownProviderAbsent ==
  /\ pc \in {"gather", "responded", "crashed"} =>
       \A n \in Requested : n \notin _achievelist => ~Dispatched(n)
  /\ pc = "responded" =>
       /\ \A n \in Requested :
            n \notin _achievelist =>
              \A k \in DOMAIN Entries : Entries[k].provider # n
       /\ response[1].total_providers =
            Cardinality(HitNames \cup {n \in Requested : n \in _achievelist})
       /\ \A i \in DOMAIN tasks : FreshEntry(i) = EntryOf(valid_providers[i], query, tasks[i].res)
  /\ pc = "crashed" =>
       \/ tasks = <<>> /\ reqlog = NoLog
       \/ \E i \in DOMAIN tasks : tasks[i].res.kind = "none"

C14_Witness ==
  /\ pc = "responded"
  /\ \E n \in Requested : n \notin _achievelist
  /\ \E i \in DOMAIN tasks : tasks[i].res.kind = "answer" /\ tasks[i].res.a.success
  /\ response[1].total_providers = 1

(* C15: an adapter's search never raises: whatever the query and the
   provider config, it returns an answer object, and a failure carries one
   of the seven error kinds. *)
ErrorKinds ==
  {"config_error", "api_error", "network_error", "parse_error", "match_error",
   "cache_miss", "unknown"}

C15_AdapterSearchNeverRaises ==
  call.done =>
    /\ call.res.kind = "answer"
    /\ ~call.res.a.success => call.res.a.error_type \in ErrorKinds

(* C16: every entry of a response is well shaped: a success has exactly one
   of choice, judgement, text populated and no error kind; a failure has no
   payload and one error kind. *)
PopulatedFields(a) ==
  {f \in {"choice", "text"} : a[f].some /\ a[f].val # <<>>}
    \cup (IF a.judgement.some THEN {"judgement"} ELSE {})

WellShaped(a) ==
  IF a.success
  THEN Cardinality(PopulatedFields(a)) = 1 /\ a.error_type = ""
  ELSE PopulatedFields(a) = {} /\ a.error_type \in ErrorKinds

C16_EntriesWellShaped ==
  pc = "responded" => \A k \in DOMAIN Entries : WellShaped(Entries[k])

(* C17: a call of the Local adapter that the database serves returns a
   success carrying the payload of one stored answer of the question the
   query names, whichever provider wrote it, when that question has a stored
   answer, and a cache_miss failure when the question is not stored or has no
   stored answer; the call leaves the three tables as they are, and Local is
   not cacheable. *)
PayloadOf(a) == <<a.type, a.choice, a.judgement, a.text>>

C17_LocalReturnsStoredAnswer ==
  [][\A q \in Queries :
       AdapterCall("Local", q, "valid", "db_ok") =>
         LET stored_q == {r \in questions : _find_by_normalized_where(r, q)}
             rows == {r \in question_provider_answers :
                        \E sq \in stored_q : r.question_id = sq.id}
             stored == {a \in answers : \E r \in rows : r.answer_id = a.id}
             res == call'.res
         IN /\ res.kind = "answer" /\ res.a.provider = "Local"
            /\ rows # {} =>
                 /\ res.a.success
                 /\ \E a \in stored :
                      PayloadOf(res.a) = <<Some(a.type), a.choice, a.judgement, a.text>>
            /\ rows = {} =>
                 /\ ~res.a.success /\ res.a.error_type = "cache_miss"
                 /\ PopulatedFields(res.a) = {}
            /\ UNCHANGED storeVars
            /\ ~CACHEABLE("Local")]_vars

(* The stored config of a name, and the one resolution takes into account. *)
StoredRows(name) ==
  {i \in DOMAIN token_configs : token_configs[i].provider_name = name}

StoredConfigOf(name) ==
  IF StoredRows(name) = {} THEN EmptyConfig
  ELSE token_configs[CHOOSE i \in StoredRows(name) : TRUE].config_json

EnabledStoredConfigOf(name) ==
  IF \E i \in StoredRows(name) : token_configs[i].enabled
  THEN StoredConfigOf(name) ELSE EmptyConfig

(* config is stored with every key of the request config laid over it. *)
LaidOver(config, stored, requested) ==
  LET over == IF requested.some THEN requested.val ELSE EmptyConfig
  IN /\ DOMAIN config = DOMAIN stored \cup DOMAIN over
     /\ \A k \in DOMAIN over : config[k] = over[k]
     /\ \A k \in DOMAIN stored \ DOMAIN over : config[k] = stored[k]

(* res is the enabled stored providers with their stored configs. *)
IsEnabledStored(res) ==
  LET on == {i \in DOMAIN token_configs : token_configs[i].enabled}
  IN /\ Len(res) = Cardinality(on)
     /\ {<<res[i].name, res[i].config>> : i \in DOMAIN res}
          = {<<token_configs[i].provider_name, Some(token_configs[i].config_json)>> : i \in on}

(* C18 as stated: when the request carries a provider list, the resolved
   list has the requested names in request order and the config of each is
   the stored config of that name with the request's keys laid over it; when
   it carries none, the resolved list is the enabled stored providers with
   their stored configs; the stored configs are left as they are. *)
C18_ResolutionAsStated ==
  [][(~resolution.done /\ resolution'.done) =>
         LET r == resolution'.request
             res == resolution'.result
         IN /\ r.some =>
                 /\ Len(res) = Len(r.val)
                 /\ \A i \in DOMAIN res :
                      /\ res[i].name = r.val[i].name
                      /\ LaidOver(res[i].config.val, StoredConfigOf(res[i].name),
                                  r.val[i].config)
            /\ ~r.some => IsEnabledStored(res)
            /\ UNCHANGED token_configs]_vars

(* C18 amended: when the request carries a non-empty provider list, the
   resolved list has the requested names in request order and the config of
   each is the stored config of that name, taken as empty unless the stored
   entry is enabled, with the request's keys laid over it; when it carries no
   list or an empty one, the resolved list is the enabled stored providers
   with their stored configs; the stored configs are left as they are. *)
C18_Resolution ==
  [][(~resolution.done /\ resolution'.done) =>
         LET r == resolution'.request
             res == resolution'.result
         IN /\ (r.some /\ r.val # <<>>) =>
                 /\ Len(res) = Len(r.val)
                 /\ \A i \in DOMAIN res :
                      /\ res[i].name = r.val[i].name
                      /\ LaidOver(res[i].config.val, EnabledStoredConfigOf(res[i].name),
                                  r.val[i].config)
            /\ (~r.some \/ r.val = <<>>) => IsEnabledStored(res)
            /\ UNCHANGED token_configs]_vars

C18_Witness ==
  /\ resolution.done /\ resolution.request.some
  /\ Len(resolution.request.val) = 2
  /\ resolution.request.val[1] = Provider("Like", 1, Some([k \in {"key"} |-> "request"]))
  /\ resolution.request.val[2].name = "Wanneng"
  /\ \E i, j \in DOMAIN token_configs :
       /\ token_configs[i].provider_name = "Like" /\ token_configs[i].enabled
       /\ token_configs[i].config_json = [k \in ConfigKeys |-> "stored"]
       /\ token_configs[j].provider_name = "Wanneng" /\ ~token_configs[j].enabled
       /\ token_configs[j].config_json # EmptyConfig
  /\ resolution.result[1].config =
       Some([k \in ConfigKeys |-> IF k = "key" THEN "request" ELSE "stored"])
  /\ resolution.result[2].config.val = resolution.request.val[2].config.val

(* C19: when no answer handed to the aggregator is counted, the empty list
   included, the aggregator raises nothing and returns a unified answer whose
   lists and strings all are empty. *)
C19_EmptyUnifiedAnswer ==
  (agg.done /\ CountedKeys(agg.request, agg.answers) = <<>>) =>
    /\ ~agg.res.raised
    /\ agg.res.bestAnswer = <<>> /\ agg.res.answerKey = <<>>
    /\ agg.res.answerIndex = <<>>
    /\ agg.res.answerKeyText = <<>> /\ agg.res.answerText = <<>>

(* The lists a permutation of the adapter answers gives. *)
Reorderings(_adapter_ans) ==
  {[i \in DOMAIN _adapter_ans |-> _adapter_ans[f[i]]] :
     f \in {g \in [DOMAIN _adapter_ans -> DOMAIN _adapter_ans] :
              \A i, j \in DOMAIN _adapter_ans : g[i] = g[j] => i = j}}

(* C20 as stated: the unified answer of any permutation of the adapter
   answers is identical to the one of the list. *)
C20_OrderIndependentAsStated ==
  agg.done =>
    \A p \in Reorderings(agg.answers) : answer_match(agg.request, p) = agg.res

SameEntries(s, t) == Len(s) = Len(t) /\ SeqRange(s) = SeqRange(t)

(* C20 amended: the unified answer of any permutation of the adapter answers
   has the entries of the one of the list in bestAnswer, answerKey,
   answerIndex, answerKeyText and answerText, in an order that may differ, a
   key standing where its answer stands; both fail or neither. *)
C20_OrderIndependent ==
  agg.done =>
    \A p \in Reorderings(agg.answers) :
      LET r == answer_match(agg.request, p)
      IN /\ r.raised = agg.res.raised
         /\ SameEntries(r.bestAnswer, agg.res.bestAnswer)
         /\ SameEntries(r.answerKey, agg.res.answerKey)
         /\ SameEntries(r.answerIndex, agg.res.answerIndex)
         /\ SameEntries(r.answerKeyText, agg.res.answerKeyText)
         /\ SameEntries(r.answerText, agg.res.answerText)
         /\ \A i \in DOMAIN r.answerKey, j \in DOMAIN agg.res.answerKey :
              r.bestAnswer[i] = agg.res.bestAnswer[j] =>
                /\ r.answerKey[i] = agg.res.answerKey[j]
                /\ r.answerIndex[i] = agg.res.answerIndex[j]

C20_Witness ==
  /\ agg.done /\ ~agg.res.raised
  /\ agg.request = [type |-> 1, options |-> Some(<<"x", "y">>)]
  /\ agg.answers = <<AdapterAns(<<"y">>, 1), AdapterAns(<<"x">>, 1)>>
  /\ agg.res.bestAnswer = <<"y", "x">>
  /\ agg.res.answerKey = <<"B", "A">>
  /\ agg.res.answerText = <<"y", "#", "x">>

(* The votes of a run: the keys counted, and how often each was. *)
Votes == CountedKeys(agg.request, agg.answers)
VotesFor(v) == Cardinality({k \in DOMAIN Votes : Votes[k] = v})
FirstVote(v) == CHOOSE k \in DOMAIN Votes : Votes[k] = v /\ \A m \in 1..(k - 1) : Votes[m] # v
TopVoted == {v \in SeqRange(Votes) : \A w \in SeqRange(Votes) : VotesFor(w) <= VotesFor(v)}

(* The adapter answers of the request's type, each taken as one unit. *)
Units == {k \in DOMAIN agg.answers : agg.answers[k].type = agg.request.type}
SameUnit(k, m) == SeqRange(agg.answers[k].answer) = SeqRange(agg.answers[m].answer)
UnitCount(k) == Cardinality({m \in Units : SameUnit(k, m)})
ModalUnits ==
  {k \in Units :
     /\ \A m \in Units : UnitCount(m) <= UnitCount(k)
     /\ \A m \in Units : (UnitCount(m) = UnitCount(k) /\ ~SameUnit(k, m)) => k < m}

(* C21 as stated: for a choice question the answer lists are counted as
   units and bestAnswer is the most frequent unit, the first arrived on a
   tie; for a judgement question bestAnswer is the one majority value, dui or
   cuo, the first arrived on a tie. *)
C21_ModalAnswerAsStated ==
  (agg.done /\ ~agg.res.raised) =>
    IF agg.request.type = 3
    THEN /\ Len(agg.res.bestAnswer) = 1
         /\ agg.res.bestAnswer[1] \in TopVoted
         /\ \A w \in TopVoted : FirstVote(agg.res.bestAnswer[1]) <= FirstVote(w)
    ELSE \E k \in ModalUnits :
           SeqRange(agg.res.bestAnswer) = SeqRange(agg.answers[k].answer)

(* C21 amended: in every unified answer returned, bestAnswer holds exactly
   the values with the highest count, each value of an adapter's answer list
   counted on its own (for a choice question with options only the values
   that are options, for a judgement question the words of the two lists as
   dui and cuo); values that tie are all emitted, once each, in the order in
   which they were first seen. *)
C21_ModalAnswer ==
  (agg.done /\ ~agg.res.raised) =>
    /\ SeqRange(agg.res.bestAnswer) = TopVoted
    /\ Len(agg.res.bestAnswer) = Cardinality(TopVoted)
    /\ \A i, j \in DOMAIN agg.res.bestAnswer :
         i < j => FirstVote(agg.res.bestAnswer[i]) < FirstVote(agg.res.bestAnswer[j])
    /\ agg.request.type = 3 => SeqRange(agg.res.bestAnswer) \subseteq {"dui", "cuo"}

C21_Witness ==
  /\ agg.done /\ ~agg.res.raised
  /\ agg.request = [type |-> 3, options |-> NoneSeq]
  /\ agg.answers = <<AdapterAns(<<"cuo">>, 3), AdapterAns(<<"zhengque">>, 3)>>
  /\ agg.res.bestAnswer = <<"cuo", "dui">>

(* The parts joined by a delimiter, the delimiter being one element. *)
RECURSIVE JoinWith(_, _)
JoinWith(parts, delimiter) ==
  IF Len(parts) <= 1 THEN parts
  ELSE JoinWith(SubSeq(parts, 1, Len(parts) - 1), delimiter)
         \o <<delimiter, parts[Len(parts)]>>

EncodingsAgree(delimiter) ==
  (/\ agg.done /\ ~agg.res.raised
   /\ agg.request.type \in {0, 1}
   /\ agg.request.options.some /\ agg.request.options.val # <<>>) =>
    LET res == agg.res
        options == agg.request.options.val
    IN /\ Len(res.answerKey) = Len(res.bestAnswer)
       /\ Len(res.answerIndex) = Len(res.bestAnswer)
       /\ \A i \in DOMAIN res.bestAnswer :
            /\ res.answerIndex[i] >= 0 /\ res.answerIndex[i] < Len(options)
            /\ res.answerKey[i] = Letter(res.answerIndex[i])
            /\ res.bestAnswer[i] = options[res.answerIndex[i] + 1]
       /\ res.answerKeyText = res.answerKey
       /\ res.answerText = JoinWith(res.bestAnswer, delimiter)

(* C22: in every unified answer of a choice question with options, key,
   index and best answer agree at each position and the index is in range,
   answerKeyText is the keys in a row, and answerText is the best answers
   joined by the three-character delimiter. *)
C22_EncodingsAgree == EncodingsAgree("#@#")

(* C23: in every response, total_providers is the number of entries,
   successful_providers the number of successes among them, the cached
   entries included, failed_providers the number of failures, which are the
   tasks that raised or returned a failure, and the total is their sum. *)
C23_CountsAgree ==
  pc = "responded" =>
    LET r == response[1]
        ok == {k \in DOMAIN Entries : Entries[k].success}
        fresh_ok == {i \in DOMAIN tasks :
                       tasks[i].res.kind = "answer" /\ tasks[i].res.a.success}
    IN /\ r.total_providers = Len(Entries)
       /\ r.successful_providers = Cardinality(ok)
       /\ r.failed_providers = Len(Entries) - Cardinality(ok)
       /\ r.total_providers = r.successful_providers + r.failed_providers
       /\ Len(Entries) = Len(answers_from_cache) + Len(tasks)
       /\ r.successful_providers = Len(answers_from_cache) + Cardinality(fresh_ok)
       /\ r.failed_providers = Len(tasks) - Cardinality(fresh_ok)

C23_Witness ==
  /\ pc = "responded"
  /\ Len(answers_from_cache) = 1 /\ Len(tasks) = 1
  /\ response[1].total_providers = 2
  /\ response[1].successful_providers = 1
  /\ response[1].failed_providers = 1

(* The cached entries come first, and fresh entry i is the entry of task i. *)
CachedThenFresh ==
  /\ Len(Entries) = Len(answers_from_cache) + Len(tasks)
  /\ \A k \in DOMAIN answers_from_cache :
       /\ Entries[k] = answers_from_cache[k]
       /\ \E i \in DOMAIN reqlog.cached : reqlog.cached[i].hit /\ reqlog.cached[i].a = Entries[k]
  /\ \A i \in DOMAIN tasks :
       FreshEntry(i) = EntryOf(valid_providers[i], query, tasks[i].res)

(* C24 as stated: in a response the cached entries precede the fresh ones,
   and the fresh entries stand in the order in which the results of their
   adapters arrived. *)
C24_ArrivalOrderAsStated ==
  pc = "responded" =>
    /\ CachedThenFresh
    /\ \A i, j \in DOMAIN tasks : tasks[i].arrived < tasks[j].arrived => i < j

(* The providers dispatched, in the order of dispatch: the Local providers
   of the resolved list, then its other providers that missed the cache,
   those without an adapter left out. *)
IsDispatchedOther(name) ==
  /\ ~IsLocalProvider(name) /\ name \notin HitNames
  /\ get_adapter_achieve(name) # NoAdapter

DispatchOrder ==
  SelectSeq(providers_list, IsLocalProvider) \o SelectSeq(providers_list, IsDispatchedOther)

(* C24 amended: in a response the cached entries precede the fresh ones, and
   the fresh entries stand in the order in which their adapters were
   dispatched, whatever the order in which the results arrived. *)
C24_DispatchOrder ==
  pc = "responded" =>
    /\ CachedThenFresh
    /\ valid_providers = DispatchOrder
    /\ \A i \in DOMAIN tasks : tasks[i].arrived \in 1..Len(tasks)

C24_Witness ==
  /\ pc = "responded"
  /\ Len(tasks) = 2
  /\ tasks[2].arrived = 1 /\ tasks[1].arrived = 2
  /\ FreshEntry(1).provider = providers_list[1]
  /\ FreshEntry(1) # FreshEntry(2)

(* C26 as stated: a match score lies between 0 and 1, and the score of a
   string with itself is 1. *)
C26_MatcherBoundsAsStated ==
  (matcher.done /\ matcher.kind = "score") =>
    /\ matcher.score.den > 0
    /\ 0 <= matcher.score.num /\ matcher.score.num <= matcher.score.den
    /\ matcher.answer = matcher.option => matcher.score.num = matcher.score.den

(* Some character of the string is a letter, a digit, an underscore or a
   Chinese character. *)
HasWordChar(s) == \E i \in DOMAIN s : s[i] \notin {"?", " ", "."}

(* C26 amended: a match score lies between 0 and 1; the score of a string
   with itself is 1 when the string holds a character that is kept by the
   normalisation, and 0 when it holds none. *)
C26_MatcherBounds ==
  (matcher.done /\ matcher.kind = "score") =>
    /\ matcher.score.den > 0
    /\ 0 <= matcher.score.num /\ matcher.score.num <= matcher.score.den
    /\ matcher.answer = matcher.option =>
         IF HasWordChar(matcher.answer)
         THEN matcher.score.num = matcher.score.den
         ELSE matcher.score.num = 0

C26_Witness ==
  /\ matcher.done /\ matcher.kind = "score"
  /\ matcher.answer = <<"A", "?">> /\ matcher.option = <<"b", "a">>
  /\ matcher.score.num > 0 /\ matcher.score.num < matcher.score.den

(* The option letters of a list of n options. *)
OptionLetters(n) == {Letter(i) : i \in 0..(n - 1)}

BuildDone ==
  /\ matcher.done /\ matcher.kind = "build"
  /\ matcher.options.some /\ matcher.options.val # <<>>

(* The keys of the answer lie among the option letters. *)
ChoiceInRange ==
  matcher.res.success =>
    /\ matcher.res.choice.some
    /\ \A i \in DOMAIN matcher.res.choice.val :
         matcher.res.choice.val[i] \in OptionLetters(Len(matcher.options.val))

(* The answer is the one matched from the fallback text, or from the keys
   joined by spaces when there is no fallback text. *)
AnswerFromText ==
  matcher.res =
    build_choice_answer("Like",
                        IF matcher.answer_text.some /\ matcher.answer_text.val # <<>>
                        THEN matcher.answer_text.val
                        ELSE JoinSpace(matcher.answer_keys),
                        matcher.options, matcher.question_type)

(* C25 as stated: with options, build_choice_answer_from_keys returns the
   upstream keys when each of them is one option letter, matches the
   fallback text against the options when some key is not, and every key of
   a successful answer is an option letter. *)
C25_KeysOrFallbackAsStated ==
  BuildDone =>
    LET keys == matcher.answer_keys
        letters == OptionLetters(Len(matcher.options.val))
        IsLetter(key) == Len(KeyUpper(key)) = 1 /\ KeyUpper(key)[1] \in letters
        all == keys # <<>> /\ \A i \in DOMAIN keys : IsLetter(keys[i])
        given == Some([i \in DOMAIN keys |-> KeyUpper(keys[i])[1]])
    IN /\ all => (matcher.res.success /\ matcher.res.choice = given)
       /\ ~all => AnswerFromText
       /\ ChoiceInRange

(* C25 amended: with options, build_choice_answer_from_keys reads each
   upstream key in upper case and without surrounding blanks; when at least
   one key is then one option letter the choice is those keys, in upstream
   order, the other keys dropped; only when no key is one does it match the
   fallback text (the keys joined by spaces when there is none) against the
   options; every key of a successful answer is an option letter. *)
C25_KeysOrFallback ==
  BuildDone =>
    LET keys == matcher.answer_keys
        letters == OptionLetters(Len(matcher.options.val))
        IsLetter(key) == Len(KeyUpper(key)) = 1 /\ KeyUpper(key)[1] \in letters
        kept == SelectSeq(keys, IsLetter)
    IN /\ kept # <<>> =>
            /\ matcher.res.success
            /\ matcher.res.choice = Some([i \in DOMAIN kept |-> KeyUpper(kept[i])[1]])
       /\ kept = <<>> => AnswerFromText
       /\ ChoiceInRange

C25_Witness ==
  /\ BuildDone
  /\ matcher.answer_keys = <<<<"Z">>>>
  /\ matcher.answer_text = Some(<<"a", "b">>)
  /\ matcher.options = Some(<<<<"a", "b">>, <<"b">>>>)
  /\ matcher.res.success /\ matcher.res.choice = Some(<<"A">>)

(* C27: normalising a second time changes nothing, for normalize_text on
   every string and for normalize_options on every list of options, the
   absent and the empty one included. *)
C27_Idempotent ==
  normal.passes = 2 =>
    /\ normal.kind = "text" => normal.text = normal.prev_text
    /\ normal.kind = "options" => normal.options = normal.prev_options

(* A second pass over an input that the first pass changed and reordered. *)
C27_Witness ==
  /\ normal.passes = 2 /\ normal.kind = "options"
  /\ normal.options_in = Some(<<<<"b">>, <<"A", ".">>>>)
  /\ normal.options = Some(<<<<"a">>, <<"b">>>>)

(* C28: the registry holds one instance per adapter name, and loading a
   class whose name is registered already fails the start-up and leaves the
   instance registered first in its place. *)
C28_DuplicateIsFatal ==
  [][(registry'.loaded = registry.loaded + 1
      /\ registry'.last \in DOMAIN registry._achievelist) =>
       /\ registry'.raised
       /\ registry'._achievelist[registry'.last] = registry._achievelist[registry'.last]
       /\ registry'._list[registry'.last] = registry._list[registry'.last]]_vars

(* C29: a permit is held exactly while an adapter call runs, whether the
   call returns or throws; when every call ends a request of more than
   MAX_CONCURRENT calls does not deadlock: no call waits for ever, the
   fan-out ends and all permits are free again; and a call of one request
   never waits for the permits of another request. *)
C29_FanOutTerminates ==
  /\ [](semValue + nRunning = MAX_CONCURRENT)
  /\ [](fan.semValue + fan.nRunning = MAX_CONCURRENT)
  /\ <>[](nWaiting = 0 /\ nRunning = 0 /\ semValue = MAX_CONCURRENT)
  /\ <>[](fan.nWaiting = 0 /\ fan.nRunning = 0 /\ fan.semValue = MAX_CONCURRENT)
  /\ [](semValue = 0 /\ fan.nWaiting > 0 => ENABLED RivalAcquire)

(* A request of more than MAX_CONCURRENT calls has ended, its last call by
   throwing, and every permit is free. *)
C29_Witness ==
  /\ nEnded > MAX_CONCURRENT /\ nWaiting = 0 /\ nRunning = 0
  /\ semValue = MAX_CONCURRENT /\ fan.threw

(* C30: no session is used by two tasks: every task that works with a
   session works with one that it opened itself and that no other task
   works with, so the session of a write-through task or of a Local search
   is not the one of the request; and a session whose task has ended is
   closed, committed when the body returned and the commit went through,
   rolled back otherwise. *)
C30_SessionsNotShared ==
  /\ \A s \in DOMAIN sess.sessions :
       sess.sessions[s].opener # 0 =>
         /\ Cardinality(sess.sessions[s].users) <= 1
         /\ sess.sessions[s].users \subseteq {sess.sessions[s].opener}
  /\ \A t, u \in DOMAIN sess.tasks :
       (t # u /\ sess.tasks[t].pc # "start" /\ sess.tasks[u].pc # "start") =>
         sess.tasks[t].session # sess.tasks[u].session
  /\ \A t \in DOMAIN sess.tasks :
       sess.tasks[t].pc # "start" =>
       LET session == sess.sessions[sess.tasks[t].session]
       IN /\ session.opener = t
          /\ sess.tasks[t].pc = "body" => (~session.closed /\ session.tx = "active")
          /\ sess.tasks[t].pc = "done" =>
               /\ session.closed
               /\ session.tx = IF sess.tasks[t].outcome = "returned"
                               THEN "committed" ELSE "rolled_back"

(* A write-through task is at work on its session after the handler that
   created it has returned and the session of the request is committed and
   closed. *)
C30_Witness ==
  \E t \in DOMAIN sess.tasks :
    /\ sess.tasks[t].kind = "write" /\ sess.tasks[t].pc = "body"
    /\ t \in sess.sessions[sess.tasks[t].session].users
    /\ LET h == sess.tasks[t].parent
       IN /\ sess.tasks[h].pc = "done" /\ sess.tasks[h].outcome = "returned"
          /\ sess.sessions[sess.tasks[h].session].closed
          /\ sess.sessions[sess.tasks[h].session].users = {h}

(* The rows of the exact key of a query, and the query of an operation. *)
ExactRows(q) == {r \in emb.rows : _find_by_normalized_where(r, q)}

LastQuery == EmbedQueries[emb.last.query]

(* C31: a lookup returns the row of the exact key when there is one, without
   asking the approximate tier and whatever the embedding client does; when the client is absent or fails, a lookup
   raises nothing and returns the row of the exact key or none, and a
   write-through of a question without such a row raises nothing and stores
   the question without a vector. *)
C31_ExactFirstAndDegraded ==
  /\ emb.last.op = "find" =>
       /\ ExactRows(LastQuery) # {} =>
            /\ emb.last.tier = "exact"
            /\ \E r \in ExactRows(LastQuery) : emb.last.row = r.id
       /\ emb.last.service # "up" =>
            /\ ~emb.last.raised
            /\ emb.last.row = 0 <=> ExactRows(LastQuery) = {}
  /\ (emb.last.op = "save" /\ emb.last.service # "up") =>
       /\ ~emb.last.raised
       /\ \E r \in ExactRows(LastQuery) :
            /\ r.id = emb.last.row
            /\ emb.last.created => ~r.embedding.some

(* A question was stored while the client was down, and is found by its exact
   key while the client is down, although a row with a vector is within the
   threshold of it. *)
C31_Witness ==
  /\ emb.last.op = "find" /\ emb.last.service = "fails"
  /\ emb.last.query = 1 /\ emb.last.row = 1
  /\ \E r \in emb.rows : r.id = 1 /\ ~r.embedding.some
  /\ \E r \in emb.rows : r.id = 7 /\ r.embedding.some

(* The distance of a stored vector from the vector of the query of the last
   operation, and the rows the approximate tier may return for it: of the
   type of the query, with a stored vector, as similar as the threshold asks,
   and with the options of the query or none as the query has none. *)
LastDistance(r) == cosine_distance(r.embedding.val, embed(_build_embedding_text(LastQuery)))

LastCandidates ==
  {r \in emb.rows : r.type = LastQuery.type.val /\ r.embedding.some}

LastAcceptable(among) ==
  {r \in among :
     /\ 100 - LastDistance(r) >= EMBEDDING_SIMILARITY_THRESHOLD
     /\ r.normalized_options.some = LastQuery.options.some
     /\ r.normalized_options = normalize_options(LastQuery.options)}

LastNearest ==
  {r \in LastCandidates :
     Cardinality({s \in LastCandidates : LastDistance(s) < LastDistance(r)}) < EMBEDDING_TOP_K}

(* The row an operation found: of the type and with the options of the
   query; when the approximate tier found it, the nearest of the rows it may
   choose among, and no row only when there is none of them. *)
LookupReturns(among) ==
  (emb.last.op # "" /\ ~emb.last.raised /\ ~emb.last.created) =>
    /\ \A r \in emb.rows : r.id = emb.last.row =>
         /\ r.type = LastQuery.type.val
         /\ r.normalized_options.some = LastQuery.options.some
         /\ r.normalized_options = normalize_options(LastQuery.options)
         /\ ExactRows(LastQuery) = {} =>
              /\ r \in LastAcceptable(LastCandidates)
              /\ \A s \in LastAcceptable(among) : LastDistance(r) <= LastDistance(s)
    /\ (emb.last.op = "find" /\ emb.last.service = "up" /\ emb.last.row = 0) =>
         LastAcceptable(among) = {}

(* C32 as stated: the approximate tier returns the nearest of all the rows of
   the type with a stored vector that pass the threshold and the option
   check. *)
C32_NearestAcceptableAsStated == LookupReturns(LastCandidates)

(* C32: no lookup returns a row of another type, or with options where the
   query has none or the reverse, or with other normalized options; the
   approximate tier returns a row with a stored vector and a similarity of at
   least the threshold, the nearest such row among the EMBEDDING_TOP_K rows
   of the type with a stored vector that are nearest to the query. *)
C32_NearestAcceptable == LookupReturns(LastNearest)

(* A lookup returned the approximately matching row at the threshold, past
   nearer rows with other options. *)
C32_Witness ==
  /\ emb.last.op = "find" /\ emb.last.query = 1 /\ emb.last.row = 7
  /\ \E r \in emb.rows : r.id = 3 /\ r.embedding.some

(* The rows a write-through found when it began, and those of them an
   approximate match of its query may be. *)
RowsBefore ==
  IF emb.last.created THEN {r \in emb.rows : r.id # emb.last.row} ELSE emb.rows

ExactBefore == {r \in RowsBefore : _find_by_normalized_where(r, LastQuery)}

ApproximateBefore(among) ==
  {r \in among :
     /\ r.type = LastQuery.type.val /\ r.embedding.some
     /\ 100 - LastDistance(r) >= EMBEDDING_SIMILARITY_THRESHOLD
     /\ r.normalized_options = normalize_options(LastQuery.options)}

NearestBefore ==
  {r \in RowsBefore :
     /\ r.type = LastQuery.type.val /\ r.embedding.some
     /\ Cardinality({s \in RowsBefore :
                       /\ s.type = LastQuery.type.val /\ s.embedding.some
                       /\ LastDistance(s) < LastDistance(r)}) < EMBEDDING_TOP_K}

(* The answer of the batch is the one cached answer of Like for the row. *)
AttachedTo(id) ==
  {l \in emb.links : QpaWhere(l, id, "Like")}
    = {[question_id |-> id, provider_name |-> "Like", answer_id |-> emb.last.query]}

(* C40 as stated, for a write-through during which the embedding client
   answers: when its query has no row of its exact key while a row of the
   type, with the normalized options and similar enough is stored, it
   creates no row and attaches its answer to such a row; it creates a row
   only when no row of either kind is stored. *)
C40_WriteThroughTwoTierAsStated ==
  (emb.last.op = "save" /\ ~emb.last.raised /\ emb.last.service = "up") =>
    /\ (ExactBefore = {} /\ ApproximateBefore(RowsBefore) # {}) =>
         /\ ~emb.last.created
         /\ \E r \in ApproximateBefore(RowsBefore) : r.id = emb.last.row /\ AttachedTo(r.id)
    /\ emb.last.created => (ExactBefore = {} /\ ApproximateBefore(RowsBefore) = {})

(* C40: a write-through whose query has no row of its exact key, while the
   embedding client answers and one of the EMBEDDING_TOP_K nearest rows of
   the type with a stored vector has the normalized options and is similar
   enough, creates no row and attaches its answer to the nearest such row in
   place of the answer cached for it; it creates a row exactly when there is
   no row of the exact key and the approximate lookup finds none. *)
C40_WriteThroughTwoTier ==
  (emb.last.op = "save" /\ ~emb.last.raised) =>
    LET found == IF emb.last.service = "up" THEN ApproximateBefore(NearestBefore) ELSE {}
    IN /\ (ExactBefore = {} /\ found # {}) =>
            /\ ~emb.last.created
            /\ \E r \in found :
                 /\ r.id = emb.last.row /\ AttachedTo(r.id)
                 /\ \A s \in found : LastDistance(r) <= LastDistance(s)
       /\ emb.last.created <=> (ExactBefore = {} /\ found = {})
       /\ emb.last.created => \E r \in emb.rows : r.id = emb.last.row /\ AttachedTo(r.id)
       /\ RowsBefore \subseteq emb.rows

(* The answer given for the first question replaced the answer cached for
   the approximately matching row, and the first question has no row. *)
C40_Witness ==
  /\ emb.last.op = "save" /\ emb.last.query = 1 /\ emb.last.row = 7
  /\ ~emb.last.created /\ AttachedTo(7)
  /\ \A r \in emb.rows : r.id # 1

(* The names given to the last batch read, the committed question rows of
   its query, and the committed rows of a provider for them. *)
ReadNames == {read.providers[i].name : i \in DOMAIN read.providers}

ReadQuestions == {r \in questions : _find_by_normalized_where(r, read.query)}

StoredFor(name) ==
  {l \in question_provider_answers :
     l.provider_name = name /\ \E r \in ReadQuestions : l.question_id = r.id}

(* C33: the dictionary a batch read returns has exactly the given provider
   names as keys, whether the question is found or not; while nothing has
   been committed since, a name with a stored answer for the question has
   that answer as its entry and every other name the none entry. *)
C33_BatchReadKeys ==
  (read.done /\ ~read.raised) =>
    /\ DOMAIN read.cached = ReadNames
    /\ read.seen = commits =>
         \A name \in ReadNames :
           IF StoredFor(name) = {} THEN read.cached[name] = Miss
           ELSE /\ read.cached[name].hit
                /\ read.cached[name].a.provider = name
                /\ \E l \in StoredFor(name), a \in answers :
                     /\ a.id = l.answer_id
                     /\ read.cached[name].a.type = Some(a.type)
                     /\ read.cached[name].a.choice = a.choice
                     /\ read.cached[name].a.judgement = a.judgement
                     /\ read.cached[name].a.text = a.text

(* A read of a found question for a provider that has stored nothing and
   one that has, while another provider's answer is stored too. *)
C33_Witness ==
  /\ read.done /\ ~read.raised /\ read.seen = commits
  /\ ReadNames = {"Ghost", "Like"}
  /\ ~read.cached["Ghost"].hit /\ read.cached["Like"].hit
  /\ StoredFor("Wanneng") # {}

(* The provider lists that name the providers of the last read, under any
   configurations. *)
SameNames(providers) ==
  /\ Len(providers) = Len(read.providers)
  /\ \A i \in DOMAIN providers : providers[i].name = read.providers[i].name

(* C35: the cache is keyed by question and provider name alone.  While
   nothing has been committed since a batch read, the read of the same
   providers under any other configurations has the same one result; and
   when a write-through commits, the one cached answer of its provider for
   its question is the answer it wrote, whatever the configurations of the
   providers that wrote before. *)
C35_KeyedByNameOnly ==
  /\ [](  (read.done /\ ~read.raised /\ read.seen = commits) =>
            \A providers \in ReadProviderLists :
              SameNames(providers) =>
                database_query_cache_batch(read.query, providers)
                  = {[raised |-> FALSE, cached |-> read.cached]}  )
  /\ [][\A t \in DOMAIN wt :
          WT_Commit(t) =>
            \E l \in question_provider_answers' :
              /\ l.answer_id = wt[t].answer_id
              /\ {k \in question_provider_answers' :
                    QpaWhere(k, wt[t].question_id, ProviderKey(read.writers[t]))} = {l}]_vars

(* C34: the answers table holds at most one row per payload (type, choice,
   judgement, text), an absent field being equal to an absent field only,
   and no step of a write-through changes or removes a row of it. *)
C34_OneAnswerPerPayload ==
  /\ [](\A a1, a2 \in answers :
          (/\ a1.type = a2.type /\ a1.choice = a2.choice
           /\ a1.judgement = a2.judgement /\ a1.text = a2.text) => a1 = a2)
  /\ [][answers \subseteq answers']_vars

(* Two texts that are one text with one conjunction or another in one
   place. *)
DifferOnlyInParticle(s, t) ==
  \E prefix \in ParticlePrefixes, suffix \in ParticleSuffixes, p1 \in Particles,
     p2 \in Particles :
    s = prefix \o p1 \o suffix /\ t = prefix \o p2 \o suffix

(* C37: two texts that differ only in which of the conjunctions yu, ji,
   yi ji and he they use have the same normalized form, without any of the
   first three, and score exactly 1 against each other. *)
C37_ParticlesUnified ==
  (matcher.done /\ matcher.kind = "score"
     /\ DifferOnlyInParticle(matcher.answer, matcher.option)) =>
    /\ normalize_for_match(matcher.answer) = normalize_for_match(matcher.option)
    /\ \A i \in DOMAIN normalize_for_match(matcher.answer) :
         normalize_for_match(matcher.answer)[i] \notin {"yu", "ji", "yi"}
    /\ matcher.score = Score(1, 1)

(* The score of option i of the last selection, the options that reach the
   threshold and those that no option outscores. *)
SelectScore(i) == calculate_match_score(matcher.answer_text.val, matcher.options.val[i])

SelectAbove == {i \in DOMAIN matcher.options.val : ScoreAtLeast(SelectScore(i), 1, 2)}

SelectTop ==
  {i \in DOMAIN matcher.options.val :
     \A j \in DOMAIN matcher.options.val :
       ScoreAtLeast(SelectScore(i), SelectScore(j).num, SelectScore(j).den)}

(* The answer is the success with these options as keys, in option order. *)
Selected(chosen) ==
  /\ matcher.res.success
  /\ matcher.res.choice = Some(KeysOf({i - 1 : i \in chosen}))
  /\ matcher.res.type = Some(IF Cardinality(chosen) > 1 THEN 1 ELSE 0)

(* C36: with threshold 0.5, a single-choice request gets one option that no
   option outscores if that score is at least 0.3, and match_error
   otherwise; a multi-choice request gets every option that scores at least
   0.5, or one option that no option outscores when none reaches 0.5 and
   that score is at least 0.3, and match_error otherwise; the keys are in
   option order, the type is 0 with one key and 1 with more. *)
C36_Selection ==
  (matcher.done /\ matcher.kind = "select") =>
    IF matcher.question_type = 1 /\ SelectAbove # {}
    THEN Selected(SelectAbove)
    ELSE IF \E i \in SelectTop : ScoreAtLeast(SelectScore(i), 3, 10)
    THEN \E i \in SelectTop : Selected({i})
    ELSE matcher.res = MatchError("Like", matcher.question_type)

(* A multi-choice request answered with the one best option below the
   threshold, as type 0. *)
C36_Witness ==
  /\ matcher.done /\ matcher.kind = "select" /\ matcher.question_type = 1
  /\ SelectAbove = {}
  /\ matcher.res.success /\ matcher.res.type = Some(0)
  /\ Len(matcher.options.val) = 3 /\ matcher.res.choice = Some(<<"B">>)

(* C38: when the handler has responded, the entry of the i-th result names
   the i-th provider dispatched, also after a provider without an adapter
   was skipped: the entry of an exception is the unknown failure under that
   provider's name, every other entry is the answer of that provider's
   adapter, and every pair queued for write-through joins an answer with the
   provider whose task returned it. *)
C38_ResultAttribution ==
  pc = "responded" =>
    /\ Len(tasks) = Len(valid_providers)
    /\ \A i \in DOMAIN tasks :
         /\ FreshEntry(i).provider = valid_providers[i]
         /\ IF IsException(tasks[i].res)
            THEN FreshEntry(i) = SynthesizedUnknown(valid_providers[i], query)
            ELSE FreshEntry(i) = tasks[i].res.a
    /\ \A k \in DOMAIN reqlog.to_cache :
         /\ reqlog.to_cache[k][2].provider = reqlog.to_cache[k][1]
         /\ \E i \in DOMAIN tasks :
              /\ valid_providers[i] = reqlog.to_cache[k][1]
              /\ ~IsException(tasks[i].res)
              /\ tasks[i].res.a = reqlog.to_cache[k][2]

(* A provider without an adapter came first and was skipped; the adapter of
   the second one threw, and the one fresh entry is the unknown failure
   under the second one's name. *)
C38_Witness ==
  /\ pc = "responded"
  /\ Len(providers_list) = 2
  /\ get_adapter_achieve(providers_list[1]) = NoAdapter
  /\ ~IsLocalProvider(providers_list[2])
  /\ valid_providers = <<providers_list[2]>>
  /\ IsException(tasks[1].res)
  /\ FreshEntry(1) = SynthesizedUnknown(providers_list[2], query)

(* C39: the three tables change only in the commit of a write-through that
   has processed all its pairs, and a write-through that has committed or
   failed takes no further step; so a write-through that fails leaves the
   tables as they were, whatever it had flushed. *)
C39_AllOrNothing ==
  /\ [][<<questions, answers, question_provider_answers>>'
          # <<questions, answers, question_provider_answers>> =>
            \E t \in DOMAIN wt :
              /\ wt[t].pc = "commit" /\ wt[t].i > Len(wt[t].batch)
              /\ wt'[t].pc = "done"
              /\ commits' = commits + 1]_vars
  /\ [][\A t \in DOMAIN wt :
          wt[t].pc \in {"done", "failed"} => wt'[t] = wt[t]]_vars
  /\ [][\A t \in DOMAIN wt :
          (Running(t) /\ wt'[t].pc = "failed") =>
            UNCHANGED <<questions, answers, question_provider_answers>>]_vars

(* A write-through failed after it had flushed a question, an answer and a
   link; nothing has been committed and the tables are empty. *)
C39_Witness ==
  /\ \E t \in DOMAIN wt : wt[t].pc = "failed"
  /\ Len(wt) = 1 /\ commits = 0
  /\ seqQ > 1 /\ seqA > 1 /\ seqL > 1
  /\ questions = {} /\ answers = {} /\ question_provider_answers = {}

====
